---------------------------- MODULE Spec2Model ----------------------------
(***************************************************************************)
(* serde_epee: the EPEE Portable Storage codec.                            *)
(*                                                                         *)
(*   SpecVarInt  the VarInt primitive (varint.rs): construction from an    *)
(*               integer, to_writer, from_reader.                          *)
(*   Spec        the encoder (ser.rs) driven by a value through the serde  *)
(*               Serializer interface, one action per interface method,    *)
(*               followed by a self-describing decode (de.rs) of the bytes *)
(*               it produced.                                              *)
(*                                                                         *)
(* A u64 is an 8-tuple of bytes, least significant first (TLC's integers   *)
(* are 32 bits wide): comparisons and shifts are done on that image.       *)
(***************************************************************************)
EXTENDS Integers, Sequences, FiniteSets, TLC

VARIABLES
    \* --- VarInt (SpecVarInt) ---
    vin,        \* the integer handed to a constructor, or the raw stream
    vcut,       \* how many bytes of vin a raw reader holds
    vtail,      \* bytes that follow the varint in the reader
    vpc,        \* "new" | "made" | "rejected" | "written" | "read" | "rawread"
    varint,     \* VarInt.value
    verr,       \* error kind of the last call, or "Ok"
    wire,       \* the writer's content
    vrest,      \* what the reader still holds after from_reader
    \* --- encoder and decoder (Spec) ---
    value,      \* the value handed to to_bytes
    todo,       \* the Serializer calls the value's Serialize impl still makes
    frames,     \* the live Serializer objects, innermost last
    writer,     \* the byte sink
    pc,         \* "run" | "done" | "failed" | "decoded"
    err,        \* error kind returned by to_bytes, or "Ok"
    last,       \* the call that was made last
    decoded,    \* result of decoding the produced bytes
    counter,    \* the ByteCounter the same calls write to (serialized_size)
    sink,       \* what the byte sink does with the write_all calls to come
    \* --- decoder driven call by call (SpecDe) ---
    src,        \* the bytes handed to from_bytes
    deser,      \* the EpeeDeserializer: [rd, state, err]
    compounds,  \* the live EpeeCompound objects, innermost last
    dpc,        \* "idle" | "root" | "key" | "value" | "element" | "returned" | "failed"
    dcall,      \* the call the caller made last
    visited,    \* the value that call handed to its visitor
    \* --- the dynamic Section (SpecSection) ---
    section,    \* Section.0, the HashMap: a set of <<key, entry>>, one per key
    inserted    \* history: the keys the Section holds, in the order of insertion

vivars == <<vin, vcut, vtail, vpc, varint, verr, wire, vrest>>
servars == <<value, todo, frames, writer, pc, err, last, decoded, counter, sink>>
devars == <<src, deser, compounds, dpc, dcall, visited>>
secvars == <<section, inserted>>
vars == <<vin, vcut, vtail, vpc, varint, verr, wire, vrest,
          value, todo, frames, writer, pc, err, last, decoded, counter, sink,
          src, deser, compounds, dpc, dcall, visited,
          section, inserted>>

Ok == "Ok"

(***************************************************************************)
(* Bytes and 64-bit words                                                  *)
(***************************************************************************)

\* v.to_le_bytes() over n bytes (two's complement for v < 0)
RECURSIVE LeBytes(_, _)
LeBytes(v, n) == IF n = 0 THEN <<>> ELSE <<v % 256>> \o LeBytes(v \div 256, n - 1)

\* a buffer of n bytes, zero-initialised, whose first Len(bytes) bytes were filled
ZeroExt(bytes, n) == [i \in 1..n |-> IF i <= Len(bytes) THEN bytes[i] ELSE 0]

\* a <= b on u64
U64Leq(a, b) ==
    \/ a = b
    \/ \E i \in 1..8 : a[i] < b[i] /\ \A j \in (i + 1)..8 : a[j] = b[j]

\* (a << 2) on u64: the two top bits are shifted out
Shl2(a) == [i \in 1..8 |-> ((a[i] * 4) % 256) + (IF i > 1 THEN a[i - 1] \div 64 ELSE 0)]

\* (a >> 2) on u64
Shr2(a) == [i \in 1..8 |-> (a[i] \div 4) + (IF i < 8 THEN (a[i + 1] % 4) * 64 ELSE 0)]

\* x | y on two-bit values
Or2(x, y) == IF x = 0 THEN y ELSE IF y = 0 \/ x = y THEN x ELSE 3

\* (a | m) on u64 with m < 4
OrMask(a, m) == [a EXCEPT ![1] = ((a[1] \div 4) * 4) + Or2(a[1] % 4, m)]

U64(v) == LeBytes(v, 8)

(***************************************************************************)
(* varint.rs                                                               *)
(***************************************************************************)
MAX_BYTE_VAL == <<63, 0, 0, 0, 0, 0, 0, 0>>
MAX_WORD_VAL == <<255, 63, 0, 0, 0, 0, 0, 0>>
MAX_DWORD_VAL == <<255, 255, 255, 63, 0, 0, 0, 0>>
MAX_QWORD_VAL == <<255, 255, 255, 255, 255, 255, 255, 63>>
MAX_VARINT_VAL == MAX_QWORD_VAL

\* the thresholds of an encoder that forgets the two tag bits
var_mask_byte_size_unshifted(v) ==
    IF U64Leq(v, <<255, 0, 0, 0, 0, 0, 0, 0>>) THEN <<0, 1>>
    ELSE IF U64Leq(v, <<255, 255, 0, 0, 0, 0, 0, 0>>) THEN <<1, 2>>
    ELSE IF U64Leq(v, <<255, 255, 255, 255, 0, 0, 0, 0>>) THEN <<2, 4>>
    ELSE <<3, 8>>

\* the thresholds compared with < instead of <=
var_mask_byte_size_strict(v) ==
    IF v # MAX_BYTE_VAL /\ U64Leq(v, MAX_BYTE_VAL) THEN <<0, 1>>
    ELSE IF v # MAX_WORD_VAL /\ U64Leq(v, MAX_WORD_VAL) THEN <<1, 2>>
    ELSE IF v # MAX_DWORD_VAL /\ U64Leq(v, MAX_DWORD_VAL) THEN <<2, 4>>
    ELSE <<3, 8>>

\* (var_mask, byte_size) as to_writer selects them
var_mask_byte_size(v) ==
    IF U64Leq(v, MAX_BYTE_VAL) THEN <<0, 1>>
    ELSE IF U64Leq(v, MAX_WORD_VAL) THEN <<1, 2>>
    ELSE IF U64Leq(v, MAX_DWORD_VAL) THEN <<2, 4>>
    ELSE <<3, 8>>

\* VarInt::to_writer: the bytes handed to write_all
to_writer(v) ==
    SubSeq(OrMask(Shl2(v), var_mask_byte_size(v)[1]), 1, var_mask_byte_size(v)[2])

\* a reader that takes the discriminant for a byte count
read_size_linear(b0) == (b0 % 4) + 1

\* the width from_reader derives from the first byte
read_size(b0) == 2 ^ (b0 % 4)

\* VarInt::from_reader on a reader holding rd.  After a failed read_exact the
\* reader's position is unspecified; the model leaves it where it was.
from_reader(rd) ==
    IF Len(rd) < 1 THEN [err |-> "IOError", value |-> U64(0), rest |-> rd]
    ELSE IF Len(rd) < read_size(rd[1])
         THEN [err |-> "IOError", value |-> U64(0), rest |-> rd]
         ELSE [err |-> Ok,
               value |-> Shr2(ZeroExt(SubSeq(rd, 1, read_size(rd[1])), 8)),
               rest |-> SubSeq(rd, read_size(rd[1]) + 1, Len(rd))]

\* impl TryFrom<u64> for VarInt, impl TryFrom<usize> for VarInt (64-bit usize)
try_from(v) ==
    IF U64Leq(v, MAX_VARINT_VAL)
    THEN [err |-> Ok, value |-> v]
    ELSE [err |-> "VarIntTooSmall", value |-> U64(0)]


(***************************************************************************)
(* SpecVarInt: the inputs and the calls                                    *)
(***************************************************************************)
MaxTail == 1

LowBytes == {0, 1, 2, 3, 63, 64, 252, 255}
FillBytes == {0, 255}
TopBytes == {0, 1, 63, 64, 255}

\* the 64-bit word with low byte lo, byte p equal to t, fill between them
Word(lo, fill, p, t) ==
    [i \in 1..8 |-> IF i = 1 THEN lo ELSE IF i < p THEN fill ELSE IF i = p THEN t ELSE 0]

VarIntInputs ==
    {Word(lo, fill, p, t) : lo \in LowBytes, fill \in FillBytes, p \in 2..8, t \in TopBytes}

RawLens == {0, 1, 8}
Tails == {[i \in 1..n |-> 255] : n \in 0..MaxTail}

(***************************************************************************)
(* Byte strings.  A &[u8], a Vec<u8> or the content of a reader is the     *)
(* sequence of its bytes.  A string too long to write out holds runs: the  *)
(* element 0 - n stands for n consecutive bytes "x" (120).                 *)
(***************************************************************************)
Runs(s) == {i \in 1..Len(s) : s[i] < 0}

RECURSIVE RunExtra(_, _)
RunExtra(s, I) ==
    IF I = {} THEN 0
    ELSE LET i == CHOOSE x \in I : TRUE
         IN (0 - s[i]) - 1 + RunExtra(s, I \ {i})

\* <[u8]>::len
ByteLen(s) == Len(s) + RunExtra(s, Runs(s))

\* the place of the first run of s, Len(s) + 1 when it has none
FirstRun(s) ==
    CHOOSE i \in 1..(Len(s) + 1) :
        (i > Len(s) \/ s[i] < 0) /\ \A j \in 1..(i - 1) : s[j] >= 0

\* k bytes "x": one element each when they fit a key, a run otherwise
Chunk(k) == IF k <= 255 THEN [j \in 1..k |-> 120] ELSE <<0 - k>>

Cons(p, t) == <<p \o t[1], t[2]>>

Join(t) == t[1] \o t[2]

\* <<s[..n], s[n..]>>, for n <= ByteLen(s); i is FirstRun(s)
RECURSIVE SplitAt(_, _)
SplitRun(s, n, i) ==
    IF n < i THEN <<SubSeq(s, 1, n), SubSeq(s, n + 1, Len(s))>>
    ELSE IF n - (i - 1) < 0 - s[i]
         THEN <<SubSeq(s, 1, i - 1) \o Chunk(n - (i - 1)),
                <<s[i] + (n - (i - 1))>> \o SubSeq(s, i + 1, Len(s))>>
         ELSE Cons(SubSeq(s, 1, i - 1) \o Chunk(0 - s[i]),
                   SplitAt(SubSeq(s, i + 1, Len(s)), n - (i - 1) + s[i]))

SplitAt(s, n) == SplitRun(s, n, FirstRun(s))

\* A byte sink W: Write.  left: how many write_all calls it takes before it
\* fails one (NoLimit: it fails none); at: how many bytes it held when a
\* write_all failed (NoLimit: none has failed).  The call after a failed one
\* is taken again.
NoLimit == 0 - 1
Sink(left, at) == [left |-> left, at |-> at]
\* Vec<u8>, std::io::sink()
Unfailing == Sink(NoLimit, NoLimit)

\* ByteCounter::new over std::io::sink()
ByteCounter == [count |-> 0]

\* a write that counts the calls instead of the bytes
write_counting_calls(bc, buf) == [bc EXCEPT !.count = @ + 1]

\* <ByteCounter as Write>::write: the inner sink takes all of buf, Ok(buf.len())
write(bc, buf) == [bc EXCEPT !.count = @ + ByteLen(buf)]

\* ByteCounter::bytes_written
bytes_written(bc) == bc.count

\* no Section is being built
SectionIdle ==
    /\ section = {}
    /\ inserted = <<>>

EncoderIdle ==
    /\ value = <<>>
    /\ todo = <<>>
    /\ frames = <<>>
    /\ writer = <<>>
    /\ pc = "idle"
    /\ err = Ok
    /\ last = "none"
    /\ decoded = <<>>
    /\ counter = ByteCounter
    /\ sink = Unfailing

InitVarInt ==
    /\ vin \in VarIntInputs
    /\ vcut \in RawLens
    /\ vtail \in Tails
    /\ vpc = "new"
    /\ varint = U64(0)
    /\ verr = Ok
    /\ wire = <<>>
    /\ vrest = <<>>
    /\ EncoderIdle
    /\ src = <<>>
    /\ deser = <<>>
    /\ compounds = <<>>
    /\ dpc = "idle"
    /\ dcall = "none"
    /\ visited = <<>>
    /\ SectionIdle

\* VarInt::try_from(vin as u64)
try_from_u64 ==
    /\ vpc = "new"
    /\ varint' = try_from(vin).value
    /\ verr' = try_from(vin).err
    /\ vpc' = IF try_from(vin).err = Ok THEN "made" ELSE "rejected"
    /\ UNCHANGED <<vin, vcut, vtail, wire, vrest>>
    /\ UNCHANGED <<servars, devars, secvars>>

\* VarInt::try_from(vin as usize)
try_from_usize ==
    /\ vpc = "new"
    /\ varint' = try_from(vin).value
    /\ verr' = try_from(vin).err
    /\ vpc' = IF try_from(vin).err = Ok THEN "made" ELSE "rejected"
    /\ UNCHANGED <<vin, vcut, vtail, wire, vrest>>
    /\ UNCHANGED <<servars, devars, secvars>>

\* VarInt::from(vin as u32): every u32 is accepted
from_u32 ==
    /\ vpc = "new"
    /\ \A i \in 5..8 : vin[i] = 0
    /\ varint' = vin
    /\ verr' = Ok
    /\ vpc' = "made"
    /\ UNCHANGED <<vin, vcut, vtail, wire, vrest>>
    /\ UNCHANGED <<servars, devars, secvars>>

\* varint.to_writer(&mut wire)
vi_to_writer ==
    /\ vpc = "made"
    /\ wire' = wire \o to_writer(varint)
    /\ vpc' = "written"
    /\ UNCHANGED <<vin, vcut, vtail, varint, verr, vrest>>
    /\ UNCHANGED <<servars, devars, secvars>>

\* VarInt::from_reader on what was written followed by vtail, or on the first
\* vcut bytes of vin taken as a stream
vi_from_reader ==
    /\ vpc \in {"new", "written"}
    /\ LET rd == IF vpc = "new" THEN SubSeq(vin, 1, vcut) ELSE wire \o vtail
           r == from_reader(rd)
       IN /\ varint' = r.value
          /\ verr' = r.err
          /\ vrest' = r.rest
    /\ vpc' = IF vpc = "new" THEN "rawread" ELSE "read"
    /\ UNCHANGED <<vin, vcut, vtail, wire>>
    /\ UNCHANGED <<servars, devars, secvars>>

NextVarInt ==
    \/ try_from_u64
    \/ try_from_usize
    \/ from_u32
    \/ vi_to_writer
    \/ vi_from_reader

SpecVarInt == InitVarInt /\ [][NextVarInt]_vars

(***************************************************************************)
(* constants.rs                                                            *)
(***************************************************************************)
PORTABLE_STORAGE_SIGNATURE == <<1, 17, 1, 1, 1, 1, 2, 1, 1>>
PORTABLE_STORAGE_SIGNATURE_SIZE == 9

SERIALIZE_TYPE_UNKNOWN == 0
SERIALIZE_TYPE_INT64 == 1
SERIALIZE_TYPE_INT32 == 2
SERIALIZE_TYPE_INT16 == 3
SERIALIZE_TYPE_INT8 == 4
SERIALIZE_TYPE_UINT64 == 5
SERIALIZE_TYPE_UINT32 == 6
SERIALIZE_TYPE_UINT16 == 7
SERIALIZE_TYPE_UINT8 == 8
SERIALIZE_TYPE_DOUBLE == 9
SERIALIZE_TYPE_STRING == 10
SERIALIZE_TYPE_BOOL == 11
SERIALIZE_TYPE_OBJECT == 12
SERIALIZE_FLAG_ARRAY == 128

MAX_NUM_SECTION_FIELDS == 10000
MAX_SECTION_KEY_SIZE == 255
MAX_STRING_LEN_POSSIBLE == 2000000000

(***************************************************************************)
(* ser.rs: the Serializer object and its private methods.                  *)
(* A method takes and returns st = [s, w, err]: the Serializer's fields,   *)
(* the content of the sink it borrows, and the Result so far.              *)
(***************************************************************************)

\* A usize is a pair <<hi, lo>> standing for hi * 2^32 + lo, with lo below
\* 2^31; Option<usize>::None is the pair whose lo is NoneLen.
NoneLen == 0 - 1
usize(hi, lo) == <<hi, lo>>
is_some(len) == len[2] # NoneLen
usize_leq(l, m) == l[1] = 0 /\ l[2] <= m

\* l as u32: the low 32 bits
as_u32(l) == l[2]

Serializer(format, len) ==
    [storage_format |-> format,
     len |-> len,
     element_type |-> SERIALIZE_TYPE_UNKNOWN,
     started |-> FALSE,
     serializing_key |-> FALSE]

\* new_section / new_root_section / new_array / new_packed share one body
new_frame(format, len) ==
    IF len <= MAX_NUM_SECTION_FIELDS
    THEN [err |-> Ok, s |-> Serializer(format, len)]
    ELSE [err |-> "TooManySectionFields", s |-> Serializer(format, len)]

new_section(len) == new_frame("Section", len)
new_root_section(len) == new_frame("RootSection", len)
new_array(len) == new_frame("Array", len)
new_packed(len) == new_frame("Packed", len)
new_unstarted == Serializer("Unstarted", 0)

\* a write_raw called whatever the Result of the calls before it
write_raw_unchecked(st, bytes) ==
    IF st.sink.left = 0
    THEN [st EXCEPT !.err = "IOError", !.sink = Sink(NoLimit, Len(st.w))]
    ELSE [st EXCEPT !.w = @ \o bytes, !.bc = write(@, bytes),
                    !.sink.left = IF @ > 0 THEN @ - 1 ELSE @]

\* writer.write_all(bytes), an io::Error becoming IOError.  write_all on a
\* Vec<u8> never fails; on the ByteCounter of serialized_size the same call is
\* one write
write_raw(st, bytes) ==
    IF st.err # Ok THEN st
    ELSE IF st.sink.left = 0
    THEN [st EXCEPT !.err = "IOError", !.sink = Sink(NoLimit, Len(st.w))]
    ELSE [st EXCEPT !.w = @ \o bytes, !.bc = write(@, bytes),
                    !.sink.left = IF @ > 0 THEN @ - 1 ELSE @]

\* type_code | array_mask
write_type_code(st, type_code, is_array) ==
    write_raw(st, <<IF is_array /\ type_code < SERIALIZE_FLAG_ARRAY
                    THEN type_code + SERIALIZE_FLAG_ARRAY
                    ELSE type_code>>)

\* a write_key_string that lets one more byte through
write_key_string_wide(st, k) ==
    IF st.err # Ok THEN st
    ELSE IF ByteLen(k) > MAX_SECTION_KEY_SIZE + 1 THEN [st EXCEPT !.err = "KeyTooLong"]
    ELSE write_raw(write_raw(st, <<ByteLen(k)>>), k)

write_key_string(st, k) ==
    IF st.err # Ok THEN st
    ELSE IF ByteLen(k) > MAX_SECTION_KEY_SIZE THEN [st EXCEPT !.err = "KeyTooLong"]
    ELSE write_raw(write_raw(st, <<ByteLen(k)>>), k)

\* VarInt::from(len).to_writer(writer)
write_varlen(st, len) == write_raw(st, to_writer(U64(len)))

\* the prologue of serialize_start_and_type_code: what an unstarted frame writes
start_frame(st, type_code) ==
    LET f == st.s.storage_format
        a == IF f = "Section" THEN write_type_code(st, SERIALIZE_TYPE_OBJECT, FALSE)
             ELSE IF f = "RootSection" THEN write_raw(st, PORTABLE_STORAGE_SIGNATURE)
             ELSE IF f = "Array" THEN write_type_code(st, type_code, TRUE)
             ELSE st
        b == IF f # "Packed" THEN write_varlen(a, st.s.len) ELSE a
    IN IF b.err # Ok THEN b
       ELSE [b EXCEPT !.s.element_type = type_code, !.s.started = TRUE]

serialize_start_and_type_code(st, type_code) ==
    IF st.err # Ok THEN st
    ELSE LET a == IF ~st.s.started THEN start_frame(st, type_code) ELSE st
         IN IF a.err # Ok THEN a
            ELSE IF a.s.storage_format = "Array" /\ type_code # a.s.element_type
            THEN [a EXCEPT !.err = "ArrayMixedTypes"]
            ELSE IF a.s.serializing_key /\ type_code # SERIALIZE_TYPE_STRING
            THEN [a EXCEPT !.err = "KeyBadType"]
            ELSE IF a.s.storage_format \in {"Section", "RootSection"}
                    /\ type_code # SERIALIZE_TYPE_UNKNOWN
            THEN write_type_code(a, type_code, FALSE)
            ELSE a

\* size_of the numeric type behind a type code
num_size(type_code) ==
    IF type_code \in {SERIALIZE_TYPE_INT64, SERIALIZE_TYPE_UINT64, SERIALIZE_TYPE_DOUBLE} THEN 8
    ELSE IF type_code \in {SERIALIZE_TYPE_INT32, SERIALIZE_TYPE_UINT32} THEN 4
    ELSE IF type_code \in {SERIALIZE_TYPE_INT16, SERIALIZE_TYPE_UINT16} THEN 2
    ELSE 1

\* serialize_num!: serialize_i8 .. serialize_u64, serialize_f64 (a double is
\* given by its bit pattern)
serialize_num(st, numcode, v) ==
    write_raw(serialize_start_and_type_code(st, numcode), LeBytes(v, num_size(numcode)))

\* a serialize_bytes that also turns down a string of MAX_STRING_LEN_POSSIBLE bytes
serialize_bytes_strict(st, v) ==
    IF st.s.serializing_key
    THEN LET res == write_key_string(st, v)
         IN [res EXCEPT !.s.serializing_key = FALSE]
    ELSE IF ByteLen(v) >= MAX_STRING_LEN_POSSIBLE THEN [st EXCEPT !.err = "StringTooLong"]
    ELSE write_raw(
           write_varlen(serialize_start_and_type_code(st, SERIALIZE_TYPE_STRING),
                        ByteLen(v)),
           v)

serialize_bool(st, v) ==
    write_raw(serialize_start_and_type_code(st, SERIALIZE_TYPE_BOOL), <<v>>)

serialize_bytes(st, v) ==
    IF st.s.serializing_key
    THEN LET res == write_key_string(st, v)
         IN [res EXCEPT !.s.serializing_key = FALSE]
    ELSE IF ByteLen(v) > MAX_STRING_LEN_POSSIBLE THEN [st EXCEPT !.err = "StringTooLong"]
    ELSE write_raw(
           write_varlen(serialize_start_and_type_code(st, SERIALIZE_TYPE_STRING),
                        ByteLen(v)),
           v)

\* a serialize_seq that begins an array in any frame
serialize_seq_nesting(s, len) ==
    IF is_some(len)
    THEN IF usize_leq(len, MAX_NUM_SECTION_FIELDS)
         THEN new_array(as_u32(len))
         ELSE [err |-> "ArrayTooLong", s |-> s]
    ELSE [err |-> "NoLength", s |-> s]

\* a serialize_seq that takes a sequence of unknown length as an empty one
serialize_seq_unsized(s, len) ==
    IF s.storage_format = "Array"
    THEN [err |-> "NestedArrays", s |-> s]
    ELSE IF is_some(len)
         THEN IF usize_leq(len, MAX_NUM_SECTION_FIELDS)
              THEN new_array(as_u32(len))
              ELSE [err |-> "ArrayTooLong", s |-> s]
         ELSE new_array(0)

\* serialize_seq on frame s: the new frame, or the error
serialize_seq(s, len) ==
    IF s.storage_format = "Array"
    THEN [err |-> "NestedArrays", s |-> s]
    ELSE IF is_some(len)
         THEN IF usize_leq(len, MAX_NUM_SECTION_FIELDS)
              THEN new_array(as_u32(len))
              ELSE [err |-> "ArrayTooLong", s |-> s]
         ELSE [err |-> "NoLength", s |-> s]

serialize_tuple(s, len) ==
    IF usize_leq(len, MAX_NUM_SECTION_FIELDS)
    THEN new_packed(as_u32(len))
    ELSE [err |-> "TupleTooLong", s |-> s]

\* a serialize_map that opens every section as a root section
serialize_map_always_root(s, len) ==
    IF is_some(len) THEN new_root_section(as_u32(len)) ELSE [err |-> "NoLength", s |-> s]

serialize_map(s, len) ==
    IF is_some(len)
    THEN IF s.storage_format = "Unstarted"
         THEN new_root_section(as_u32(len))
         ELSE new_section(as_u32(len))
    ELSE [err |-> "NoLength", s |-> s]

serialize_struct(s, len) == serialize_map(s, len)

(***************************************************************************)
(* The values handed to the encoder, as the serde data model sees them.    *)
(* A node is [k, t, n, b, c]: kind, numeric type code, number (or declared *)
(* length), bytes, children.                                               *)
(***************************************************************************)
Node(k, t, n, b, c) == [k |-> k, t |-> t, n |-> n, b |-> b, c |-> c]

Num(t, v) == Node("num", t, v, <<>>, <<>>)
Bool(v) == Node("bool", SERIALIZE_TYPE_BOOL, v, <<>>, <<>>)
Str(b) == Node("str", SERIALIZE_TYPE_STRING, 0, b, <<>>)
Bytes(b) == Node("bytes", SERIALIZE_TYPE_STRING, 0, b, <<>>)
NoneVal == Node("none", 0, 0, <<>>, <<>>)
\* Vec<T>, or any sequence that declares length len (NoneLen: no length)
Vec(len, elems) == Node("seq", 0, len, <<>>, elems)
\* [T; N] and (A, B, ..)
Tuple(elems) == Node("tuple", 0, Len(elems), <<>>, elems)
\* a record with named fields
Field(key, v) == Node("field", 0, 0, key, <<v>>)
Struct(fields) == Node("struct", 0, Len(fields), <<>>, fields)
\* a map (HashMap, Section) that declares length len
Entry(key, v) == Node("entry", 0, 0, <<>>, <<key, v>>)
Map(len, entries) == Node("map", 0, len, <<>>, entries)
\* a map that declares hi * 2^32 + lo entries
WideMap(hi, lo, entries) == Node("map", hi, lo, <<>>, entries)

\* one call on the Serializer interface
Call(op, t, n, b) == [op |-> op, t |-> t, n |-> n, b |-> b]
NoCall == Call("none", 0, 0, <<>>)

\* The calls v.serialize(serializer) makes, in order (serde's impls for the
\* primitive types, Vec, arrays, tuples and HashMap, and derive(Serialize)).
RECURSIVE Calls(_)
RECURSIVE CallsOfAll(_, _)
CallsOfAll(c, i) == IF i > Len(c) THEN <<>> ELSE Calls(c[i]) \o CallsOfAll(c, i + 1)

Calls(v) ==
    CASE v.k = "num" -> <<Call("serialize_num", v.t, v.n, <<>>)>>
      [] v.k = "bool" -> <<Call("serialize_bool", v.t, v.n, <<>>)>>
      [] v.k = "str" -> <<Call("serialize_str", v.t, 0, v.b)>>
      [] v.k = "bytes" -> <<Call("serialize_bytes", v.t, 0, v.b)>>
      [] v.k = "none" -> <<Call("serialize_none", 0, 0, <<>>)>>
      [] v.k = "seq" ->
            <<Call("serialize_seq", v.t, v.n, <<>>)>> \o CallsOfAll(v.c, 1)
                \o <<Call("end", 0, 0, <<>>)>>
      [] v.k = "tuple" ->
            <<Call("serialize_tuple", v.t, v.n, <<>>)>> \o CallsOfAll(v.c, 1)
                \o <<Call("end", 0, 0, <<>>)>>
      [] v.k = "struct" ->
            <<Call("serialize_struct", v.t, v.n, <<>>)>> \o CallsOfAll(v.c, 1)
                \o <<Call("end", 0, 0, <<>>)>>
      [] v.k = "field" -> <<Call("serialize_field", 0, 0, v.b)>> \o Calls(v.c[1])
      [] v.k = "map" ->
            <<Call("serialize_map", v.t, v.n, <<>>)>> \o CallsOfAll(v.c, 1)
                \o <<Call("end", 0, 0, <<>>)>>
      [] v.k = "entry" -> <<Call("serialize_key", 0, 0, <<>>)>> \o Calls(v.c[1]) \o Calls(v.c[2])

(***************************************************************************)
(* de.rs: the decoder.  A method takes the deserializer d = [rd, state,    *)
(* err]: the bytes the reader still holds, the DeserState, the Result so   *)
(* far ("panic": the call did not return).  A method that hands a value to *)
(* the visitor returns [d, v].                                             *)
(***************************************************************************)
DeserState(name, root, ty) == [st |-> name, root |-> root, ty |-> ty]
ExpectingSection(root) == DeserState("ExpectingSection", root, 0)
ExpectingKey == DeserState("ExpectingKey", FALSE, 0)
ExpectingEntry == DeserState("ExpectingEntry", FALSE, 0)
ExpectingScalar(ty) == DeserState("ExpectingScalar", FALSE, ty)
Done == DeserState("Done", FALSE, 0)

\* EpeeDeserializer::from_reader
EpeeDeserializer(rd) == [rd |-> rd, state |-> ExpectingSection(TRUE), err |-> Ok]

NoVal == NoneVal
Fail(d, kind) == [d |-> [d EXCEPT !.err = kind], v |-> NoVal]

\* the largest integer of the model; a length at or above it is held as this
\* value, far above the length of any stream of the model
Huge == 2147483646 + 1

\* <$numtype>::from_le_bytes for an unsigned type
RECURSIVE from_le_unsigned(_, _)
from_le_unsigned(bytes, i) ==
    IF i > Len(bytes) THEN 0
    ELSE IF i > 4 /\ bytes[i] # 0 THEN Huge
    ELSE IF i = 4 /\ bytes[i] >= 128 THEN Huge
    ELSE LET hi == from_le_unsigned(bytes, i + 1)
         IN IF hi = Huge \/ (hi # 0 /\ i > 4) THEN Huge
            ELSE IF i > 4 THEN 0 ELSE bytes[i] + 256 * hi

\* <$numtype>::from_le_bytes for a signed type
from_le_signed(bytes) ==
    IF bytes[Len(bytes)] < 128 THEN from_le_unsigned(bytes, 1)
    ELSE LET inv == from_le_unsigned([i \in 1..Len(bytes) |-> 255 - bytes[i]], 1)
         IN IF inv = Huge THEN 0 - Huge ELSE (0 - 1) - inv

from_le_bytes(ty, bytes) ==
    IF ty \in {SERIALIZE_TYPE_INT64, SERIALIZE_TYPE_INT32, SERIALIZE_TYPE_INT16,
               SERIALIZE_TYPE_INT8}
    THEN from_le_signed(bytes)
    ELSE from_le_unsigned(bytes, 1)

\* VarInt -> usize
usize_of(u) == from_le_unsigned(u, 1)

\* std::str::from_utf8(bytes).is_ok(), from byte i on
IsCont(bytes, i) == i <= Len(bytes) /\ bytes[i] >= 128 /\ bytes[i] <= 191
RECURSIVE is_utf8(_, _)
is_utf8(bytes, i) ==
    IF \A j \in i..Len(bytes) : bytes[j] < 128 THEN TRUE
    ELSE LET b == bytes[i]
         IN IF b < 128 THEN is_utf8(bytes, i + 1)
            ELSE IF b >= 194 /\ b <= 223
                 THEN IsCont(bytes, i + 1) /\ is_utf8(bytes, i + 2)
            ELSE IF b >= 224 /\ b <= 239
                 THEN /\ IsCont(bytes, i + 1)
                      /\ IsCont(bytes, i + 2)
                      /\ (b = 224 => bytes[i + 1] >= 160)
                      /\ (b = 237 => bytes[i + 1] <= 159)
                      /\ is_utf8(bytes, i + 3)
            ELSE IF b >= 240 /\ b <= 244
                 THEN /\ IsCont(bytes, i + 1)
                      /\ IsCont(bytes, i + 2)
                      /\ IsCont(bytes, i + 3)
                      /\ (b = 240 => bytes[i + 1] >= 144)
                      /\ (b = 244 => bytes[i + 1] <= 143)
                      /\ is_utf8(bytes, i + 4)
            ELSE FALSE

\* read_raw: a short read panics
read_raw(d, n) ==
    IF ByteLen(d.rd) < n
    THEN [d |-> [d EXCEPT !.err = "panic"], bytes |-> <<>>]
    ELSE [d |-> [d EXCEPT !.rd = SplitAt(d.rd, n)[2]], bytes |-> SplitAt(d.rd, n)[1]]

\* read_single: a short read is an IOError
read_single(d) ==
    IF Len(d.rd) < 1
    THEN [d |-> [d EXCEPT !.err = "IOError"], byte |-> 0]
    ELSE [d |-> [d EXCEPT !.rd = IF d.rd[1] < -1 THEN <<d.rd[1] + 1>> \o Tail(d.rd)
                                 ELSE Tail(d.rd)],
          byte |-> IF d.rd[1] < 0 THEN 120 ELSE d.rd[1]]

\* the outcome of from_reader as a usize, the reader left after the varint
as_usize(d, r) ==
    IF r.err # Ok
    THEN [d |-> [d EXCEPT !.err = r.err], n |-> 0]
    ELSE [d |-> [d EXCEPT !.rd = r.rest], n |-> usize_of(r.value)]

\* VarInt::from_reader(self.reader)?.try_into()? as usize
read_varint(d) ==
    as_usize(d, from_reader(Join(SplitAt(d.rd, IF ByteLen(d.rd) < 8 THEN ByteLen(d.rd) ELSE 8))))

\* a from_type_code that takes one code more
from_type_code_loose(type_code) ==
    LET scalar_type_code == type_code % SERIALIZE_FLAG_ARRAY
    IN IF scalar_type_code = 0 \/ scalar_type_code > 13
       THEN [err |-> "BadTypeCode", scalar_type |-> 0, is_array |-> FALSE]
       ELSE [err |-> Ok,
             scalar_type |-> scalar_type_code,
             is_array |-> type_code >= SERIALIZE_FLAG_ARRAY]

\* EpeeScalarType::from_type_code and EpeeEntryType::from_type_code
from_type_code(type_code) ==
    LET scalar_type_code == type_code % SERIALIZE_FLAG_ARRAY
    IN IF scalar_type_code = 0 \/ scalar_type_code > 12
       THEN [err |-> "BadTypeCode", scalar_type |-> 0, is_array |-> FALSE]
       ELSE [err |-> Ok,
             scalar_type |-> scalar_type_code,
             is_array |-> type_code >= SERIALIZE_FLAG_ARRAY]

\* read_type_code: [d, t] with t the entry type
read_type_code(d) ==
    LET r == read_single(d)
        t == from_type_code(r.byte)
    IN IF r.d.err # Ok THEN [d |-> r.d, t |-> t]
       ELSE [d |-> [r.d EXCEPT !.err = t.err], t |-> t]

\* a deserialize_num! that leaves the state as it found it
deserialize_num_keeps_state(d, numtype) ==
    IF d.state.st \in {"ExpectingEntry", "ExpectingScalar"}
    THEN LET tc == IF d.state.st = "ExpectingEntry"
                   THEN read_type_code(d)
                   ELSE [d |-> d, t |-> from_type_code(numtype)]
         IN IF tc.d.err # Ok THEN Fail(tc.d, tc.d.err)
            ELSE IF d.state.st = "ExpectingEntry" /\ tc.t.scalar_type # numtype
            THEN Fail(tc.d, "TypeMismatch")
            ELSE LET r == read_raw(tc.d, num_size(numtype))
                 IN IF r.d.err # Ok THEN Fail(r.d, r.d.err)
                    ELSE [d |-> r.d,
                          v |-> Num(numtype, from_le_bytes(numtype, r.bytes))]
    ELSE Fail(d, "NotExpectingScalar")

\* deserialize_num!: deserialize_u8 .. deserialize_i64, deserialize_f64, with
\* the type code associated with $numtype
deserialize_num(d, numtype) ==
    IF d.state.st \in {"ExpectingEntry", "ExpectingScalar"}
    THEN LET tc == IF d.state.st = "ExpectingEntry"
                   THEN read_type_code(d)
                   ELSE [d |-> d, t |-> from_type_code(numtype)]
         IN IF tc.d.err # Ok THEN Fail(tc.d, tc.d.err)
            ELSE IF d.state.st = "ExpectingEntry" /\ tc.t.scalar_type # numtype
            THEN Fail(tc.d, "TypeMismatch")
            ELSE LET r == read_raw(tc.d, num_size(numtype))
                 IN IF r.d.err # Ok THEN Fail(r.d, r.d.err)
                    ELSE [d |-> [r.d EXCEPT !.state = ExpectingEntry],
                          v |-> Num(numtype, from_le_bytes(numtype, r.bytes))]
    ELSE Fail(d, "NotExpectingScalar")

deserialize_bool(d) ==
    LET r == read_single(d)
    IN IF r.d.err # Ok THEN Fail(r.d, r.d.err)
       ELSE [d |-> r.d, v |-> Bool(IF r.byte # 0 THEN 1 ELSE 0)]

\* deserialize_str, the branch taken in state ExpectingKey
deserialize_str_key(d) ==
    LET l == read_single(d)
    IN IF l.d.err # Ok THEN Fail(l.d, l.d.err)
       ELSE IF l.byte = 0 THEN Fail(l.d, "EmptySectionKey")
       ELSE LET r == read_raw(l.d, l.byte)
            IN IF r.d.err # Ok THEN Fail(r.d, r.d.err)
               ELSE IF is_utf8(r.bytes, 1) THEN [d |-> r.d, v |-> Str(r.bytes)]
               ELSE Fail(r.d, "StringBadEncoding")

\* deserialize_str, the branch taken in states ExpectingEntry and ExpectingScalar
deserialize_str_value(d) ==
    LET tc == IF d.state.st = "ExpectingEntry"
              THEN read_type_code(d)
              ELSE [d |-> d, t |-> from_type_code(SERIALIZE_TYPE_STRING)]
    IN IF tc.d.err # Ok THEN Fail(tc.d, tc.d.err)
       ELSE IF d.state.st = "ExpectingEntry" /\ tc.t.scalar_type # SERIALIZE_TYPE_STRING
       THEN Fail(tc.d, "TypeMismatch")
       ELSE LET l == read_varint(tc.d)
            IN IF l.d.err # Ok THEN Fail(l.d, l.d.err)
               ELSE IF l.n > MAX_STRING_LEN_POSSIBLE THEN Fail(l.d, "StringTooLong")
               ELSE LET r == read_raw(l.d, l.n)
                    IN IF r.d.err # Ok THEN Fail(r.d, r.d.err)
                       ELSE IF is_utf8(r.bytes, 1) THEN [d |-> r.d, v |-> Str(r.bytes)]
                       ELSE [d |-> r.d, v |-> Bytes(r.bytes)]

deserialize_str(d) ==
    IF d.state.st = "ExpectingKey" THEN deserialize_str_key(d)
    ELSE IF d.state.st \in {"ExpectingEntry", "ExpectingScalar"} THEN deserialize_str_value(d)
    ELSE Fail(d, "NotExpectingScalar")

\* a start_if_necessary that reads the signature and does not compare it
start_if_necessary_unsigned(d, is_root) ==
    LET sig == IF is_root
               THEN read_raw(d, PORTABLE_STORAGE_SIGNATURE_SIZE)
               ELSE [d |-> d, bytes |-> PORTABLE_STORAGE_SIGNATURE]
    IN IF sig.d.err # Ok THEN [d |-> sig.d, n |-> 0] ELSE read_varint(sig.d)

\* EpeeCompound::start_if_necessary on an unstarted compound: [d, n] with n the
\* remaining count read
start_if_necessary(d, is_root) ==
    LET sig == IF is_root
               THEN read_raw(d, PORTABLE_STORAGE_SIGNATURE_SIZE)
               ELSE [d |-> d, bytes |-> PORTABLE_STORAGE_SIGNATURE]
    IN IF sig.d.err # Ok THEN [d |-> sig.d, n |-> 0]
       ELSE IF sig.bytes # PORTABLE_STORAGE_SIGNATURE
       THEN [d |-> [sig.d EXCEPT !.err = "ExpectedFormatSignature"], n |-> 0]
       ELSE read_varint(sig.d)

\* A visitor that takes whatever the stream describes: visit_map pulls keys
\* (as strings) and values (deserialize_any) until next_key_seed returns None,
\* visit_seq pulls elements (deserialize_any) until next_element_seed does.
RECURSIVE deserialize_any(_)
RECURSIVE visit_map(_, _, _, _)
RECURSIVE visit_seq(_, _, _, _)

\* MapAccess::next_key_seed and next_value_seed, remaining pairs to go
visit_map(d, remaining, is_root, acc) ==
    IF remaining = 0 THEN [d |-> d, v |-> Map(Len(acc), acc)]
    ELSE LET k == deserialize_str([d EXCEPT !.state = ExpectingKey])
             dk == [k.d EXCEPT !.state = ExpectingEntry]
         IN IF k.d.err # Ok THEN Fail(dk, k.d.err)
            ELSE LET e == deserialize_any([dk EXCEPT !.state = ExpectingEntry])
                     de == IF is_root /\ remaining - 1 = 0
                           THEN [e.d EXCEPT !.state = Done]
                           ELSE e.d
                 IN IF e.d.err # Ok THEN Fail(de, e.d.err)
                    ELSE visit_map(de, remaining - 1, is_root,
                                   Append(acc, Entry(k.v, e.v)))

\* SeqAccess::next_element_seed, remaining elements to go
visit_seq(d, remaining, array_type, acc) ==
    IF remaining = 0 THEN [d |-> d, v |-> Vec(Len(acc), acc)]
    ELSE LET e == deserialize_any([d EXCEPT !.state = ExpectingScalar(array_type)])
             de == IF remaining - 1 = 0 THEN [e.d EXCEPT !.state = ExpectingKey] ELSE e.d
         IN IF e.d.err # Ok THEN Fail(de, e.d.err)
            ELSE visit_seq(de, remaining - 1, array_type, Append(acc, e.v))

\* visitor.visit_map(EpeeCompound::new_section / new_root_section)
enter_section(d, is_root) ==
    LET s == start_if_necessary(d, is_root)
    IN IF s.d.err # Ok THEN Fail(s.d, s.d.err) ELSE visit_map(s.d, s.n, is_root, <<>>)

\* visitor.visit_seq(EpeeCompound::new_array)
enter_array(d, array_type) ==
    LET s == start_if_necessary(d, FALSE)
    IN IF s.d.err # Ok THEN Fail(s.d, s.d.err) ELSE visit_seq(s.d, s.n, array_type, <<>>)

deserialize_scalar(d) ==
    IF d.state.st # "ExpectingScalar" THEN Fail(d, "ExpectedScalar")
    ELSE IF d.state.ty = SERIALIZE_TYPE_STRING THEN deserialize_str(d)
    ELSE IF d.state.ty = SERIALIZE_TYPE_BOOL THEN deserialize_bool(d)
    ELSE IF d.state.ty = SERIALIZE_TYPE_OBJECT THEN enter_section(d, FALSE)
    ELSE deserialize_num(d, d.state.ty)

deserialize_section_entry(d) ==
    LET tc == read_type_code(d)
    IN IF tc.d.err # Ok THEN Fail(tc.d, tc.d.err)
       ELSE IF tc.t.is_array THEN enter_array(tc.d, tc.t.scalar_type)
       ELSE deserialize_scalar([tc.d EXCEPT !.state = ExpectingScalar(tc.t.scalar_type)])

deserialize_any(d) ==
    IF d.state.st = "ExpectingSection" THEN enter_section(d, d.state.root)
    ELSE IF d.state.st = "ExpectingKey" THEN deserialize_str(d)
    ELSE IF d.state.st = "ExpectingEntry" THEN deserialize_section_entry(d)
    ELSE IF d.state.st = "ExpectingScalar" THEN deserialize_scalar(d)
    ELSE Fail(d, "ExpectedEnd")

deserialize_map(d) ==
    IF d.state.st = "ExpectingSection" THEN enter_section(d, d.state.root)
    ELSE Fail(d, "NotExpectingSection")

\* from_bytes into a map of strings to self-described values
from_bytes(bytes) == deserialize_map(EpeeDeserializer(bytes))

(***************************************************************************)
(* Spec: the values encoded                                                *)
(***************************************************************************)
MaxElems == 2
MaxFields == 2

\* "a", "b", ..
KeyOf(i) == <<96 + i>>
U8(v) == Num(SERIALIZE_TYPE_UINT8, v)

ScalarVals == {U8(7), Num(SERIALIZE_TYPE_INT32, 0 - 1), Bool(1), Str(<<120>>)}
FillVals == {U8(7), Str(<<120>>)}

\* { x: 7u8 } as a record and as a dynamic Section
InnerStruct == Struct(<<Field(<<120>>, U8(7))>>)
InnerMap == Map(1, <<Entry(Str(<<120>>), U8(7))>>)

ElemVals == ScalarVals \cup {InnerMap}
\* n - 1 copies of a, then b
ElemSeqs ==
    {<<>>} \cup {[i \in 1..n |-> IF i < n THEN a ELSE b] :
                    a \in ElemVals, b \in ElemVals, n \in 1..MaxElems}
ArrayVals == {Vec(Len(e), e) : e \in ElemSeqs}
TupleVals == {Tuple([i \in 1..n |-> U8(24)]) : n \in 0..MaxElems}
SectionVals == {Struct(<<>>), InnerStruct, Map(0, <<>>), InnerMap}
OddVals == {NoneVal, Bytes(<<1, 255>>), Vec(NoneLen, <<U8(7)>>), Vec(2, <<U8(7)>>),
            Map(NoneLen, <<>>), Vec(1, <<Vec(1, <<U8(7)>>)>>),
            Map(2, <<Entry(Str(<<120>>), U8(7))>>),
            Vec(1, <<Vec(NoneLen, <<U8(7)>>)>>), Vec(1, <<Map(NoneLen, <<>>)>>),
            Vec(1, <<Tuple(<<Vec(1, <<U8(7)>>)>>)>>)}

FieldVals == ScalarVals \cup ArrayVals \cup TupleVals \cup SectionVals \cup OddVals

\* records of n fields: field p holds v, the others hold s
StructRoots ==
    {Struct([i \in 1..n |-> Field(KeyOf(i), IF i = p THEN v ELSE s)]) :
        v \in FieldVals, s \in FillVals, n \in 0..MaxFields, p \in 1..MaxFields}

\* what a dynamic Section can hold: scalars, flat arrays of one type,
\* sections, arrays of sections
RECURSIVE IsSection(_)
IsSectionScalar(v) == v.k \in {"num", "bool", "str", "bytes"} \/ IsSection(v)
IsSectionEntry(v) ==
    \/ IsSectionScalar(v)
    \/ /\ v.k = "seq"
       /\ v.n = Len(v.c)
       /\ \A i \in 1..Len(v.c) :
            IsSectionScalar(v.c[i]) /\ v.c[i].k = v.c[1].k /\ v.c[i].t = v.c[1].t
IsSection(v) ==
    /\ v.k = "map"
    /\ v.n = Len(v.c)
    /\ \A i \in 1..Len(v.c) : v.c[i].c[1].k = "str" /\ IsSectionEntry(v.c[i].c[2])
    /\ \A i \in 1..Len(v.c) : \A j \in 1..Len(v.c) : v.c[i].c[1] = v.c[j].c[1] => i = j

\* maps of n entries in the same pattern; the keys are strings
MapRoots ==
    {Map(n, [i \in 1..n |-> Entry(Str(KeyOf(i)), IF i = p THEN v ELSE s)]) :
        v \in FieldVals, s \in FillVals, n \in 0..MaxFields, p \in 1..MaxFields}

\* maps whose key is not a string
BadKeyRoots ==
    {Map(1, <<Entry(k, v)>>) :
        k \in {U8(1), Bool(1), Tuple(<<U8(1)>>), Vec(1, <<U8(1)>>), InnerStruct},
        v \in FillVals}

\* tests/ser.rs: Request { txid: [24; 32] }
RequestV1 == Struct(<<Field(<<116, 120, 105, 100>>, Tuple([i \in 1..32 |-> U8(24)]))>>)
\* { inner: { x: 7u8 } }
NestedV4 == Struct(<<Field(<<105, 110, 110, 101, 114>>, InnerStruct)>>)

\* a map whose key is the empty string, a record whose field is renamed to it
EmptyKeyRoots ==
    {Map(1, <<Entry(Str(<<>>), v)>>) : v \in FillVals}
        \cup {Struct(<<Field(<<>>, v)>>) : v \in FillVals}

\* keys of MAX_SECTION_KEY_SIZE bytes and of one byte more, as a field name and
\* as a map key
LongKey(n) == [i \in 1..n |-> 97]
LongKeyRoots ==
    {Struct(<<Field(LongKey(MAX_SECTION_KEY_SIZE + d), U8(7))>>) : d \in {0, 1}}
        \cup {Map(1, <<Entry(Str(LongKey(MAX_SECTION_KEY_SIZE + d)), U8(7))>>) : d \in {0, 1}}

\* maps that declare a count at and above MAX_NUM_SECTION_FIELDS, at and above
\* 2^32, as the root and as a field of the root
CountedMaps ==
    {WideMap(hi, MAX_NUM_SECTION_FIELDS * m + d, e) :
        hi \in {0, 1}, m \in {0, 1}, d \in {0, 1},
        e \in {<<>>, <<Entry(Str(<<120>>), U8(7))>>}}
CountedRoots == CountedMaps \cup {Struct(<<Field(<<97>>, v)>>) : v \in CountedMaps}

Inputs ==
    StructRoots \cup MapRoots \cup BadKeyRoots \cup EmptyKeyRoots \cup LongKeyRoots
        \cup CountedRoots \cup FieldVals \cup {RequestV1, NestedV4}

(***************************************************************************)
(* Spec: to_bytes(value), one action per call on the Serializer interface  *)
(***************************************************************************)
VarIntIdle ==
    /\ vin = U64(0)
    /\ vcut = 0
    /\ vtail = <<>>
    /\ vpc = "idle"
    /\ varint = U64(0)
    /\ verr = Ok
    /\ wire = <<>>
    /\ vrest = <<>>

\* no decoder is being driven
DecoderIdle ==
    /\ src = <<>>
    /\ deser = EpeeDeserializer(<<>>)
    /\ compounds = <<>>
    /\ dpc = "idle"
    /\ dcall = "none"
    /\ visited = NoVal

\* to_bytes: an empty Vec and Serializer::new_unstarted
Init ==
    /\ value \in Inputs
    /\ todo = Calls(value)
    /\ frames = <<new_unstarted>>
    /\ writer = <<>>
    /\ pc = "run"
    /\ err = Ok
    /\ last = NoCall
    /\ decoded = Fail(EpeeDeserializer(<<>>), Ok)
    /\ counter = ByteCounter
    /\ sink = Unfailing
    /\ VarIntIdle
    /\ DecoderIdle
    /\ SectionIdle

Top == frames[Len(frames)]
Here == [s |-> Top, w |-> writer, bc |-> counter, err |-> Ok, sink |-> sink]
Next1(op) == pc = "run" /\ todo # <<>> /\ todo[1].op = op

\* a call on the current Serializer returned st
Returned(st) ==
    /\ frames' = [frames EXCEPT ![Len(frames)] = st.s]
    /\ writer' = st.w
    /\ counter' = st.bc
    /\ sink' = st.sink
    /\ err' = st.err
    /\ pc' = IF st.err = Ok THEN "run" ELSE "failed"
    /\ last' = todo[1]
    /\ todo' = Tail(todo)
    /\ UNCHANGED <<value, decoded>>
    /\ UNCHANGED <<vivars, devars, secvars>>

\* a call that begins a compound returned r: the new Serializer, or an error
Entered(r) ==
    /\ frames' = IF r.err = Ok THEN Append(frames, r.s) ELSE frames
    /\ err' = r.err
    /\ pc' = IF r.err = Ok THEN "run" ELSE "failed"
    /\ last' = todo[1]
    /\ todo' = Tail(todo)
    /\ UNCHANGED <<value, writer, decoded, counter, sink>>
    /\ UNCHANGED <<vivars, devars, secvars>>

Call_serialize_num ==
    /\ Next1("serialize_num")
    /\ Returned(serialize_num(Here, todo[1].t, todo[1].n))

Call_serialize_bool ==
    /\ Next1("serialize_bool")
    /\ Returned(serialize_bool(Here, todo[1].n))

\* serialize_str is serialize_bytes(v.as_bytes())
Call_serialize_str ==
    /\ Next1("serialize_str")
    /\ Returned(serialize_bytes(Here, todo[1].b))

Call_serialize_bytes ==
    /\ Next1("serialize_bytes")
    /\ Returned(serialize_bytes(Here, todo[1].b))

Call_serialize_none ==
    /\ Next1("serialize_none")
    /\ Returned([Here EXCEPT !.err = "SerdeModelUnsupported"])

Call_serialize_seq ==
    /\ Next1("serialize_seq")
    /\ Entered(serialize_seq(Top, usize(todo[1].t, todo[1].n)))

Call_serialize_tuple ==
    /\ Next1("serialize_tuple")
    /\ Entered(serialize_tuple(Top, usize(todo[1].t, todo[1].n)))

Call_serialize_map ==
    /\ Next1("serialize_map")
    /\ Entered(serialize_map(Top, usize(todo[1].t, todo[1].n)))

Call_serialize_struct ==
    /\ Next1("serialize_struct")
    /\ Entered(serialize_struct(Top, usize(todo[1].t, todo[1].n)))

\* SerializeMap::serialize_key, up to key.serialize(self)
Call_serialize_key ==
    /\ Next1("serialize_key")
    /\ LET st == serialize_start_and_type_code(Here, SERIALIZE_TYPE_UNKNOWN)
       IN Returned(IF st.err # Ok THEN st ELSE [st EXCEPT !.s.serializing_key = TRUE])

\* SerializeStruct::serialize_field, up to value.serialize(self)
Call_serialize_field ==
    /\ Next1("serialize_field")
    /\ Returned(write_key_string(
                  serialize_start_and_type_code(Here, SERIALIZE_TYPE_UNKNOWN), todo[1].b))

\* SerializeSeq / SerializeTuple / SerializeMap / SerializeStruct ::end
Call_end ==
    /\ Next1("end")
    /\ frames' = SubSeq(frames, 1, Len(frames) - 1)
    /\ last' = todo[1]
    /\ todo' = Tail(todo)
    /\ UNCHANGED <<value, writer, pc, err, decoded, counter, sink>>
    /\ UNCHANGED <<vivars, devars, secvars>>

\* value.serialize returned Ok: to_bytes returns the bytes
to_bytes_return ==
    /\ pc = "run"
    /\ todo = <<>>
    /\ pc' = "done"
    /\ UNCHANGED <<value, todo, frames, writer, err, last, decoded, counter, sink>>
    /\ UNCHANGED <<vivars, devars, secvars>>

\* from_bytes on the bytes to_bytes returned
Call_from_bytes ==
    /\ pc = "done"
    /\ decoded' = from_bytes(writer)
    /\ pc' = "decoded"
    /\ UNCHANGED <<value, todo, frames, writer, err, last, counter, sink>>
    /\ UNCHANGED <<vivars, devars, secvars>>

Next ==
    \/ Call_serialize_num
    \/ Call_serialize_bool
    \/ Call_serialize_str
    \/ Call_serialize_bytes
    \/ Call_serialize_none
    \/ Call_serialize_seq
    \/ Call_serialize_tuple
    \/ Call_serialize_map
    \/ Call_serialize_struct
    \/ Call_serialize_key
    \/ Call_serialize_field
    \/ Call_end
    \/ to_bytes_return
    \/ Call_from_bytes

Spec == Init /\ [][Next]_vars

(***************************************************************************)
(* SpecDe: from_bytes(src), the caller's Deserialize impl driving the      *)
(* decoder call by call.  T::deserialize calls one deserialize_* method;   *)
(* a method that meets a section or an array hands the visitor an          *)
(* EpeeCompound, which the visitor pulls with next_key_seed /              *)
(* next_value_seed / next_element_seed, each of which calls one            *)
(* deserialize_* method for the seed's type.                               *)
(***************************************************************************)

\* EpeeCompound::new_section / new_root_section / new_array (size_hint is
\* None at every construction); array_type 0 is None, a section
EpeeCompound(is_root, array_type) ==
    [is_root |-> is_root, started |-> FALSE, remaining |-> 0, array_type |-> array_type]

\* what a deserialize_* call comes to: a value handed to the visitor (or an
\* error), or a compound handed to the visitor
Leaf(r) == [d |-> r.d, v |-> r.v, open |-> <<>>]
Opened(d, c) == [d |-> d, v |-> NoVal, open |-> <<c>>]

\* deserialize_scalar, up to the visitor call
Invoke_scalar(d) ==
    IF d.state.st # "ExpectingScalar" THEN Leaf(Fail(d, "ExpectedScalar"))
    ELSE IF d.state.ty = SERIALIZE_TYPE_STRING THEN Leaf(deserialize_str(d))
    ELSE IF d.state.ty = SERIALIZE_TYPE_BOOL THEN Leaf(deserialize_bool(d))
    ELSE IF d.state.ty = SERIALIZE_TYPE_OBJECT THEN Opened(d, EpeeCompound(FALSE, 0))
    ELSE Leaf(deserialize_num(d, d.state.ty))

\* deserialize_section_entry, up to the visitor call
Invoke_section_entry(d) ==
    LET tc == read_type_code(d)
    IN IF tc.d.err # Ok THEN Leaf(Fail(tc.d, tc.d.err))
       ELSE IF tc.t.is_array THEN Opened(tc.d, EpeeCompound(FALSE, tc.t.scalar_type))
       ELSE Invoke_scalar([tc.d EXCEPT !.state = ExpectingScalar(tc.t.scalar_type)])

\* deserialize_any (deserialize_ignored_any), up to the visitor call
Invoke_any(d) ==
    IF d.state.st = "ExpectingSection" THEN Opened(d, EpeeCompound(d.state.root, 0))
    ELSE IF d.state.st = "ExpectingKey" THEN Leaf(deserialize_str(d))
    ELSE IF d.state.st = "ExpectingEntry" THEN Invoke_section_entry(d)
    ELSE IF d.state.st = "ExpectingScalar" THEN Invoke_scalar(d)
    ELSE Leaf(Fail(d, "ExpectedEnd"))

\* deserialize_map (deserialize_struct), up to the visitor call
Invoke_map(d) ==
    IF d.state.st = "ExpectingSection" THEN Opened(d, EpeeCompound(d.state.root, 0))
    ELSE Leaf(Fail(d, "NotExpectingSection"))

\* deserialize_seq (deserialize_tuple, deserialize_tuple_struct), up to the
\* visitor call
Invoke_seq(d) ==
    IF d.state.st = "ExpectingEntry"
    THEN LET tc == read_type_code(d)
         IN IF tc.d.err # Ok THEN Leaf(Fail(tc.d, tc.d.err))
            ELSE IF tc.t.is_array THEN Opened(tc.d, EpeeCompound(FALSE, tc.t.scalar_type))
            ELSE Leaf(Fail(tc.d, "ExpectedArray"))
    ELSE Leaf(Fail(d, "NotExpectingArray"))

\* a method of the Deserializer interface: its name and, for the numeric
\* methods, the type code associated with the number type
Method(name, t) == [name |-> name, t |-> t]
NumMethods ==
    {Method("deserialize_num", t) :
        t \in {SERIALIZE_TYPE_UINT8, SERIALIZE_TYPE_UINT16, SERIALIZE_TYPE_INT32}}
Methods ==
    NumMethods \cup {Method(n, 0) : n \in {"deserialize_any", "deserialize_map",
                                           "deserialize_seq", "deserialize_str",
                                           "deserialize_bool"}}

Invoke(d, m) ==
    CASE m.name = "deserialize_any" -> Invoke_any(d)
      [] m.name = "deserialize_map" -> Invoke_map(d)
      [] m.name = "deserialize_seq" -> Invoke_seq(d)
      [] m.name = "deserialize_str" -> Leaf(deserialize_str(d))
      [] m.name = "deserialize_bool" -> Leaf(deserialize_bool(d))
      [] m.name = "deserialize_num" -> Leaf(deserialize_num(d, m.t))

\* start_if_necessary on compound c: [d, c]
Started(d, c) ==
    IF c.started THEN [d |-> d, c |-> c]
    ELSE LET s == start_if_necessary(d, c.is_root)
         IN [d |-> s.d,
             c |-> IF s.d.err # Ok THEN c
                   ELSE [c EXCEPT !.started = TRUE, !.remaining = s.n]]

\* an epilogue in which next_value_seed never sets Done
Epilogue_no_done(stack, d) ==
    IF stack = <<>> THEN d
    ELSE LET c == stack[Len(stack)]
         IN IF c.array_type # 0 /\ c.remaining = 0
            THEN [d EXCEPT !.state = ExpectingKey]
            ELSE d

\* what next_value_seed / next_element_seed of the compound on top of stack
\* do after seed.deserialize returned
Epilogue(stack, d) ==
    IF stack = <<>> THEN d
    ELSE LET c == stack[Len(stack)]
         IN IF c.array_type # 0
            THEN IF c.remaining = 0 THEN [d EXCEPT !.state = ExpectingKey] ELSE d
            ELSE IF c.is_root /\ c.remaining = 0 THEN [d EXCEPT !.state = Done] ELSE d

\* what the caller does next, given the compounds it is visiting
Position(stack) ==
    IF stack = <<>> THEN "returned"
    ELSE IF stack[Len(stack)].array_type # 0 THEN "element"
    ELSE "key"

\* a call the caller made: where, the method its seed called, the deserializer
\* on entry and when the seed was called, the compound on entry (if the call
\* is on one), whether the seed was called
DeCall(slot, m, entry, pre, c, invoked) ==
    [slot |-> slot, m |-> m, entry |-> entry, pre |-> pre, c |-> c, invoked |-> invoked]
NoDeCall ==
    DeCall("none", Method("none", 0), EpeeDeserializer(<<>>), EpeeDeserializer(<<>>),
           <<>>, FALSE)

\* the streams given to from_bytes
Stream(body) == PORTABLE_STORAGE_SIGNATURE \o body

\* what the encoder writes for { a: 7u8 }, { a: true }, { a: "x" },
\* { a: [7u8, 9u8] }, { a: 7u8, b: false }, { inner: { x: 7u8 } }; a root of
\* no fields; an array of one section
GoodStreams ==
    {Stream(<<4, 1, 97, 8, 7>>),
     Stream(<<4, 1, 97, 11, 1>>),
     Stream(<<4, 1, 97, 10, 4, 120>>),
     Stream(<<4, 1, 97, 136, 8, 7, 9>>),
     Stream(<<8, 1, 97, 8, 7, 1, 98, 11, 0>>),
     Stream(<<4, 5, 105, 110, 110, 101, 114, 12, 4, 1, 120, 8, 7>>),
     Stream(<<0>>),
     Stream(<<4, 1, 97, 140, 4, 4, 1, 120, 8, 7>>)}

\* the signature with one byte changed, then a root section
BadSignatureStreams ==
    {[i \in 1..9 |-> IF i = p THEN (PORTABLE_STORAGE_SIGNATURE[i] + 1) % 256
                     ELSE PORTABLE_STORAGE_SIGNATURE[i]] \o <<4, 1, 97, 8, 7>> :
        p \in 1..PORTABLE_STORAGE_SIGNATURE_SIZE}

\* a root section, and a nested one, announcing MAX_NUM_SECTION_FIELDS fields
\* and one more
CountStreams ==
    {Stream(to_writer(U64(MAX_NUM_SECTION_FIELDS + d)) \o <<1, 97, 8, 7>>) : d \in {0, 1}}
        \cup {Stream(<<4, 1, 97, 12>> \o to_writer(U64(MAX_NUM_SECTION_FIELDS + d))
                       \o <<1, 120, 8, 7>>) : d \in {0, 1}}

\* a root section of one entry with every tag byte
TagStreams == {Stream(<<4, 1, 97, b, 4, 1, 97, 8, 7, 0, 0, 0>>) : b \in 0..255}

\* root sections whose key is or is not UTF-8
KeyStreams ==
    {Stream(<<4, Len(k)>> \o k \o <<8, 7>>) : k \in {<<97>>, <<255>>, <<195, 40>>, <<195, 169>>}}

\* { a: 1i32, b: "xyz" } as the encoder writes it, and the same stream ending
\* early after each of its bytes
Whole == Stream(<<8, 1, 97, 2, 1, 0, 0, 0, 1, 98, 10, 12, 120, 121, 122>>)
CutStreams == {SubSeq(Whole, 1, n) : n \in 0..Len(Whole)}

\* a root section whose entry "a" is an array of u8 announcing
\* MAX_STRING_LEN_POSSIBLE elements and one more, followed by two of them
ArrayCountStreams ==
    {Stream(<<4, 1, 97, SERIALIZE_TYPE_UINT8 + SERIALIZE_FLAG_ARRAY>>
              \o to_writer(U64(MAX_STRING_LEN_POSSIBLE + d)) \o <<7, 9>>) : d \in {0, 1}}

DeStreams ==
    GoodStreams \cup BadSignatureStreams \cup CountStreams \cup TagStreams \cup KeyStreams
        \cup CutStreams \cup ArrayCountStreams

\* from_bytes: EpeeDeserializer::from_reader on the bytes
InitDe ==
    /\ src \in DeStreams
    /\ deser = EpeeDeserializer(src)
    /\ compounds = <<>>
    /\ dpc = "root"
    /\ dcall = NoDeCall
    /\ visited = NoVal
    /\ VarIntIdle
    /\ EncoderIdle
    /\ SectionIdle

\* seed.deserialize(&mut deserializer) returned r, the compounds being stack
Settle(stack, r) ==
    /\ visited' = r.v
    /\ IF r.d.err # Ok
       THEN /\ deser' = Epilogue(stack, r.d)
            /\ compounds' = stack
            /\ dpc' = "failed"
       ELSE IF r.open # <<>>
       THEN /\ deser' = r.d
            /\ compounds' = Append(stack, r.open[1])
            /\ dpc' = Position(Append(stack, r.open[1]))
       ELSE /\ deser' = Epilogue(stack, r.d)
            /\ compounds' = stack
            /\ dpc' = Position(stack)

\* start_if_necessary failed in next_key_seed / next_element_seed
StartFailed(s) ==
    /\ deser' = s.d
    /\ compounds' = [compounds EXCEPT ![Len(compounds)] = s.c]
    /\ dpc' = "failed"
    /\ visited' = NoVal

\* T::deserialize(&mut deserializer), T calling method m
Call_deserialize ==
    /\ dpc = "root"
    /\ \E m \in Methods :
         /\ Settle(<<>>, Invoke(deser, m))
         /\ dcall' = DeCall("root", m, deser, deser, <<>>, TRUE)
    /\ UNCHANGED <<src, vivars, servars, secvars>>

\* MapAccess::next_key_seed, the seed calling method m
Call_next_key_seed ==
    /\ dpc = "key"
    /\ \E m \in Methods :
         LET c == compounds[Len(compounds)]
             s == Started(deser, c)
             pre == [s.d EXCEPT !.state = ExpectingKey]
             r == Invoke(pre, m)
         IN /\ dcall' = DeCall("key", m, deser, pre, <<c>>,
                                s.d.err = Ok /\ s.c.remaining # 0)
            /\ IF s.d.err # Ok THEN StartFailed(s)
               ELSE IF s.c.remaining = 0
               THEN /\ compounds' = SubSeq(compounds, 1, Len(compounds) - 1)
                    /\ deser' = Epilogue(compounds', s.d)
                    /\ dpc' = Position(compounds')
                    /\ visited' = NoVal
               ELSE /\ compounds' = [compounds EXCEPT
                                       ![Len(compounds)] = [s.c EXCEPT !.remaining = @ - 1]]
                    /\ deser' = [r.d EXCEPT !.state = ExpectingEntry]
                    /\ dpc' = IF r.d.err = Ok /\ r.open = <<>> THEN "value" ELSE "failed"
                    /\ visited' = r.v
    /\ UNCHANGED <<src, vivars, servars, secvars>>

\* MapAccess::next_value_seed, the seed calling method m
Call_next_value_seed ==
    /\ dpc = "value"
    /\ \E m \in Methods :
         LET pre == [deser EXCEPT !.state = ExpectingEntry]
         IN /\ dcall' = DeCall("value", m, deser, pre, <<>>, TRUE)
            /\ Settle(compounds, Invoke(pre, m))
    /\ UNCHANGED <<src, vivars, servars, secvars>>

\* SeqAccess::next_element_seed, the seed calling method m
Call_next_element_seed ==
    /\ dpc = "element"
    /\ \E m \in Methods :
         LET c == compounds[Len(compounds)]
             s == Started(deser, c)
             pre == [s.d EXCEPT !.state = ExpectingScalar(c.array_type)]
             stack == [compounds EXCEPT
                         ![Len(compounds)] = [s.c EXCEPT !.remaining = @ - 1]]
         IN /\ dcall' = DeCall("element", m, deser, pre, <<c>>,
                                s.d.err = Ok /\ s.c.remaining # 0)
            /\ IF s.d.err # Ok THEN StartFailed(s)
               ELSE IF s.c.remaining = 0
               THEN /\ compounds' = SubSeq(compounds, 1, Len(compounds) - 1)
                    /\ deser' = Epilogue(compounds', s.d)
                    /\ dpc' = Position(compounds')
                    /\ visited' = NoVal
               ELSE Settle(stack, Invoke(pre, m))
    /\ UNCHANGED <<src, vivars, servars, secvars>>

\* a further call on the same EpeeDeserializer after T::deserialize returned
\* Ok, calling method m
Call_deserialize_again ==
    /\ dpc = "returned"
    /\ \E m \in Methods :
         /\ Settle(<<>>, Invoke(deser, m))
         /\ dcall' = DeCall("again", m, deser, deser, <<>>, TRUE)
    /\ UNCHANGED <<src, vivars, servars, secvars>>

NextDe ==
    \/ Call_deserialize
    \/ Call_next_key_seed
    \/ Call_next_value_seed
    \/ Call_next_element_seed
    \/ Call_deserialize_again

SpecDe == InitDe /\ [][NextDe]_vars

(***************************************************************************)
(* SpecLimit: the encoder given, and the decoder reading, strings and      *)
(* blobs of MAX_STRING_LEN_POSSIBLE bytes and one more.                    *)
(***************************************************************************)
\* the lengths at the limit
LimitLens == {MAX_STRING_LEN_POSSIBLE, MAX_STRING_LEN_POSSIBLE + 1}

\* a String and a serde_bytes::ByteBuf of n bytes
LongVals == {Str(<<0 - n>>) : n \in LimitLens} \cup {Bytes(<<0 - n>>) : n \in LimitLens}

\* { a: s }, { a: 7u8, b: s }, { a: vec![s] }, and the map { "a": s }
LimitValues ==
    {Struct(<<Field(<<97>>, s)>>) : s \in LongVals}
        \cup {Struct(<<Field(<<97>>, U8(7)), Field(<<98>>, s)>>) : s \in LongVals}
        \cup {Struct(<<Field(<<97>>, Vec(1, <<s>>))>>) : s \in LongVals}
        \cup {Map(1, <<Entry(Str(<<97>>), s)>>) : s \in LongVals}

\* a root section whose entry "a" is a string of n bytes, or an array of one
\* such string, followed by the entry b: 7u8
LimitStreams ==
    {Stream(<<8, 1, 97, SERIALIZE_TYPE_STRING>> \o to_writer(U64(n)) \o <<0 - n>>
              \o <<1, 98, 8, 7>>) : n \in LimitLens}
        \cup {Stream(<<8, 1, 97, SERIALIZE_TYPE_STRING + SERIALIZE_FLAG_ARRAY, 4>>
                       \o to_writer(U64(n)) \o <<0 - n>> \o <<1, 98, 8, 7>>) :
                 n \in LimitLens}

\* to_bytes(value), or from_bytes(src)
InitLimit ==
    /\ VarIntIdle
    /\ SectionIdle
    /\ \/ /\ value \in LimitValues
          /\ todo = Calls(value)
          /\ frames = <<new_unstarted>>
          /\ writer = <<>>
          /\ pc = "run"
          /\ err = Ok
          /\ last = NoCall
          /\ decoded = Fail(EpeeDeserializer(<<>>), Ok)
          /\ counter = ByteCounter
          /\ sink = Unfailing
          /\ DecoderIdle
       \/ /\ src \in LimitStreams
          /\ deser = EpeeDeserializer(src)
          /\ compounds = <<>>
          /\ dpc = "root"
          /\ dcall = NoDeCall
          /\ visited = NoVal
          /\ EncoderIdle

NextLimit ==
    \/ Call_serialize_struct
    \/ Call_serialize_map
    \/ Call_serialize_field
    \/ Call_serialize_key
    \/ Call_serialize_seq
    \/ Call_serialize_num
    \/ Call_serialize_str
    \/ Call_serialize_bytes
    \/ Call_end
    \/ to_bytes_return
    \/ Call_deserialize
    \/ Call_next_key_seed
    \/ Call_next_value_seed
    \/ Call_next_element_seed

SpecLimit == InitLimit /\ [][NextLimit]_vars

(***************************************************************************)
(* SpecSection: a dynamic Section (section.rs) built by insert_* / remove  *)
(* calls, then handed to to_bytes.  Section is serde(transparent) over a   *)
(* HashMap<String, SectionEntry>, and SectionEntry / SectionScalar /       *)
(* SectionArray are serde(untagged): the Section serializes as the map,    *)
(* an entry as the value it holds.                                         *)
(***************************************************************************)
SectionKeys == {<<97>>, <<98>>, <<99>>}
SectionBytes == {7, 9}

\* HashMap::contains_key
contains_key(map, k) == \E e \in map : e[1] = k

\* HashMap::insert: the entry of k is replaced
insert(map, k, v) == {e \in map : e[1] # k} \cup {<<k, v>>}

\* the keys of hist without k
RECURSIVE Without(_, _)
Without(hist, k) ==
    IF hist = <<>> THEN <<>>
    ELSE IF hist[1] = k THEN Without(Tail(hist), k)
    ELSE <<hist[1]>> \o Without(Tail(hist), k)

\* HashMap::iter: the entries in the order of the table's buckets, which the
\* keys' hashes under the map's RandomState decide
iter(map) ==
    {ord \in [1..Cardinality(map) -> map] :
        \A i, j \in 1..Cardinality(map) : i # j => ord[i] # ord[j]}

\* Section::new
InitSection ==
    /\ section = {}
    /\ inserted = <<>>
    /\ VarIntIdle
    /\ EncoderIdle
    /\ DecoderIdle

\* a call on the Section while it is being built
Built(map, hist) ==
    /\ pc = "idle"
    /\ section' = map
    /\ inserted' = hist
    /\ UNCHANGED <<vivars, servars, devars>>

\* insert_scalar!{u8, insert_u8, UInt8}
Call_insert_u8 ==
    \E k \in SectionKeys, v \in SectionBytes :
        Built(insert(section, k, U8(v)),
              IF contains_key(section, k) THEN inserted ELSE Append(inserted, k))

\* insert_array!{u8, insert_array_u8, UInt8}
Call_insert_array_u8 ==
    \E k \in SectionKeys :
        Built(insert(section, k, Vec(2, <<U8(7), U8(9)>>)),
              IF contains_key(section, k) THEN inserted ELSE Append(inserted, k))

\* Section::remove
Call_remove ==
    \E k \in SectionKeys :
        Built({e \in section : e[1] # k}, Without(inserted, k))

\* to_bytes(&section): HashMap's Serialize announces its len and serializes
\* the entries as iter() yields them
Call_to_bytes ==
    /\ pc = "idle"
    /\ \E ord \in iter(section) :
         /\ value' = Map(Cardinality(section),
                         [i \in 1..Cardinality(section) |->
                             Entry(Str(ord[i][1]), ord[i][2])])
         /\ todo' = Calls(value')
    /\ frames' = <<new_unstarted>>
    /\ writer' = <<>>
    /\ counter' = ByteCounter
    /\ sink' = Unfailing
    /\ pc' = "run"
    /\ err' = Ok
    /\ last' = NoCall
    /\ UNCHANGED <<decoded, vivars, devars, secvars>>

NextSection ==
    \/ Call_insert_u8
    \/ Call_insert_array_u8
    \/ Call_remove
    \/ Call_to_bytes
    \/ Call_serialize_map
    \/ Call_serialize_key
    \/ Call_serialize_str
    \/ Call_serialize_num
    \/ Call_serialize_seq
    \/ Call_end
    \/ to_bytes_return

SpecSection == InitSection /\ [][NextSection]_vars

(***************************************************************************)
(* VarInt: properties                                                      *)
(***************************************************************************)

\* v <= 2^(8k-2) - 1, read off the bytes of v
FitsWidth(v, k) == (\A i \in (k + 1)..8 : v[i] = 0) /\ v[k] <= 63

\* the least of the widths 1, 2, 4, 8 that holds v
MinWidth(v) == CHOOSE k \in {1, 2, 4, 8} :
    FitsWidth(v, k) /\ \A j \in {1, 2, 4, 8} : FitsWidth(v, j) => k <= j

\* the discriminant of a width
MaskOfWidth(k) == CHOOSE m \in 0..3 : 2 ^ m = k

\* 4 * v + m by long multiplication over the bytes of v, from byte i on
RECURSIVE TimesFourPlus(_, _, _)
TimesFourPlus(v, i, carry) ==
    IF i > Len(v) THEN <<>>
    ELSE <<(v[i] * 4 + carry) % 256>> \o TimesFourPlus(v, i + 1, (v[i] * 4 + carry) \div 256)

\* the k-byte little-endian image of (v << 2) | m
WideImage(v, m, k) == SubSeq(TimesFourPlus(v, 1, m), 1, k)

\* C1: a VarInt written by to_writer and read back by from_reader is the same
\* value, and the reader is left holding exactly the bytes that followed it.
Thm_C1_VarIntRoundTrip ==
    vpc = "read" => verr = Ok /\ varint = vin /\ vrest = vtail

Wit_C1_VarIntRoundTrip ==
    vpc = "read" /\ vin = MAX_QWORD_VAL /\ Len(wire) = 8 /\ vtail # <<>> /\ varint = vin

\* C2: to_writer emits the least of the widths 1, 2, 4, 8 that holds the value,
\* the bytes being the little-endian image of (v << 2) | m; the boundary values
\* 63, 64, 16383, 16384, 1073741823, 1073741824 and 2^62-1 get 1, 2, 2, 4, 4, 8
\* and 8 bytes.
Thm_C2_VarIntCanonical ==
    vpc = "written" =>
        /\ Len(wire) = MinWidth(vin)
        /\ wire = WideImage(vin, MaskOfWidth(MinWidth(vin)), MinWidth(vin))
        /\ (vin = <<63, 0, 0, 0, 0, 0, 0, 0>> => wire = <<252>>)
        /\ (vin = <<64, 0, 0, 0, 0, 0, 0, 0>> => wire = <<1, 1>>)
        /\ (vin = <<255, 63, 0, 0, 0, 0, 0, 0>> => wire = <<253, 255>>)
        /\ (vin = <<0, 64, 0, 0, 0, 0, 0, 0>> => wire = <<2, 0, 1, 0>>)
        /\ (vin = <<255, 255, 255, 63, 0, 0, 0, 0>> => wire = <<254, 255, 255, 255>>)
        /\ (vin = <<0, 0, 0, 64, 0, 0, 0, 0>> => wire = <<3, 0, 0, 0, 1, 0, 0, 0>>)
        /\ (vin = <<255, 255, 255, 255, 255, 255, 255, 63>>
                => wire = <<255, 255, 255, 255, 255, 255, 255, 255>>)

Wit_C2_VarIntCanonical ==
    vpc = "written" /\ vin = <<0, 0, 0, 64, 0, 0, 0, 0>> /\ Len(wire) = 8

\* C3: from_reader accepts every width that holds the value: on the bytes of
\* (v << 2) | m over 2^m bytes it returns v, also when a narrower width would
\* have held v.
Thm_C3_VarIntNonCanonical ==
    vpc = "rawread" /\ vcut >= 2 ^ (vin[1] % 4) =>
        LET m == vin[1] % 4
            k == 2 ^ m
        IN /\ verr = Ok
           /\ FitsWidth(varint, k)
           /\ WideImage(varint, m, k) = SubSeq(vin, 1, k)
           /\ \A v \in VarIntInputs :
                  FitsWidth(v, k) /\ WideImage(v, m, k) = SubSeq(vin, 1, k) => varint = v
           /\ vrest = SubSeq(vin, k + 1, vcut)

Wit_C3_VarIntNonCanonical ==
    /\ vpc = "rawread"
    /\ vcut = 8
    /\ vin = <<255, 0, 0, 0, 0, 0, 0, 0>>
    /\ varint = <<63, 0, 0, 0, 0, 0, 0, 0>>
    /\ MinWidth(varint) = 1

\* C4: constructing a VarInt from a u64 or usize above 2^62-1 fails with
\* VarIntTooBig; values up to 2^62-1 are accepted.
Cex_C4_VarIntTooBig ==
    /\ vpc = "rejected" => verr = "VarIntTooBig" /\ ~FitsWidth(vin, 8)
    /\ vpc = "made" => verr = Ok /\ FitsWidth(vin, 8)


(***************************************************************************)
(* Properties of the encoder and of the encode / decode round trip         *)
(***************************************************************************)
\* the bytes to_bytes returned begin with the signature
BeginsWithSignature(bytes) ==
    /\ Len(bytes) >= PORTABLE_STORAGE_SIGNATURE_SIZE
    /\ SubSeq(bytes, 1, PORTABLE_STORAGE_SIGNATURE_SIZE) = PORTABLE_STORAGE_SIGNATURE

Returned_Ok == pc \in {"done", "decoded"}

\* C5: whenever to_bytes returns Ok, whatever the top-level value, the bytes
\* it returns begin with the 9-byte signature 01 11 01 01 01 01 02 01 01.
Cex_C5_SignatureFirst == Returned_Ok => BeginsWithSignature(writer)

\* C6: a root section with zero fields encodes to exactly 10 bytes, the
\* signature followed by the varint byte 00.
Cex_C6_EmptyRoot ==
    Returned_Ok /\ value \in {Struct(<<>>), Map(0, <<>>)}
        => writer = PORTABLE_STORAGE_SIGNATURE \o <<0>>

\* tests/ser.rs: the bytes the test serialize_byte_array expects
RequestV1Expected ==
    PORTABLE_STORAGE_SIGNATURE \o <<4, 4, 116, 120, 105, 100, 136, 128>>
        \o [i \in 1..32 |-> 24]

\* C7: the record { txid: [24; 32] } encodes to the signature, 04, 04 'txid',
\* the tag 88 (uint8 | array), the varint of 32, then 32 bytes 18: a fixed-size
\* byte array is written with an array tag and an element count.
Cex_C7_ByteArrayVector == Returned_Ok /\ value = RequestV1 => writer = RequestV1Expected

\* C8: the record { inner: { x: 7u8 } } encodes to the signature, 04,
\* 05 'inner', the tag 0C, 04, 01 'x', the tag 08, 07: a nested section is
\* written as key, object tag, its own field count and its pairs, without a
\* second signature.
Thm_C8_NestedSectionVector ==
    pc # "run" /\ value = NestedV4
        => /\ err = Ok
           /\ writer = PORTABLE_STORAGE_SIGNATURE
                         \o <<4, 5, 105, 110, 110, 101, 114, 12, 4, 1, 120, 8, 7>>

Wit_C8_NestedSectionVector == pc = "done" /\ value = NestedV4 /\ Len(writer) = 22

\* C9: for every dynamic Section with valid contents (scalars, flat arrays,
\* nested sections, arrays of sections), decoding the bytes its encoding
\* produced succeeds and yields an equal Section, keys in the same order.
Cex_C9_SectionRoundTrip ==
    pc = "decoded" /\ IsSection(value) => decoded.d.err = Ok /\ decoded.v = value

\* the type code of the element a call writes: a number's own code, BOOL,
\* STRING, or OBJECT for a section
ElementTypeCode(c) ==
    IF c.op = "serialize_num" THEN c.t
    ELSE IF c.op = "serialize_bool" THEN SERIALIZE_TYPE_BOOL
    ELSE IF c.op \in {"serialize_str", "serialize_bytes"} THEN SERIALIZE_TYPE_STRING
    ELSE SERIALIZE_TYPE_OBJECT

\* the next call writes an element into a started Array frame, and the
\* element's type code is not the one the frame's first element gave it
MismatchingElement ==
    /\ pc = "run"
    /\ todo # <<>>
    /\ Top.storage_format = "Array"
    /\ Top.started
    /\ todo[1].op \in {"serialize_num", "serialize_bool", "serialize_str",
                       "serialize_bytes", "serialize_map", "serialize_struct"}
    /\ ElementTypeCode(todo[1]) # Top.element_type

\* C10: an element written into an Array frame whose type code differs from
\* the type code of the frame's first element makes the write fail with
\* ArrayMixedTypes, and no byte of that element reaches the sink.
Cex_C10_ArrayMixedTypes ==
    [][MismatchingElement => err' = "ArrayMixedTypes" /\ writer' = writer]_vars


\* bytes ends with suffix
EndsWith(bytes, suffix) ==
    /\ Len(bytes) >= Len(suffix)
    /\ SubSeq(bytes, Len(bytes) - Len(suffix) + 1, Len(bytes)) = suffix

\* the value of the last field (or entry) of a record (or map)
LastValue(v) == LET f == v.c[Len(v.c)] IN f.c[Len(f.c)]

\* a sequence of at least one number, all of one type
IsNumArray(v) ==
    /\ v.k = "seq"
    /\ Len(v.c) >= 1
    /\ \A i \in 1..Len(v.c) : v.c[i].k = "num" /\ v.c[i].t = v.c[1].t

\* the payloads of the numbers c[i], c[i + 1], ...
RECURSIVE NumPayloads(_, _)
NumPayloads(c, i) ==
    IF i > Len(c) THEN <<>>
    ELSE LeBytes(c[i].n, num_size(c[i].t)) \o NumPayloads(c, i + 1)

\* an array entry holding the numbers c: the tag, the count of the payloads
\* that follow, the payloads
ArrayImage(c) ==
    <<c[1].t + SERIALIZE_FLAG_ARRAY>> \o to_writer(U64(Len(c))) \o NumPayloads(c, 1)

\* C11: in every array a successful encode wrote (serialize_seq(Some(n)), k
\* elements, end), the count after the array tag is the number k of element
\* payloads that follow it.  Stated for an array of numbers in the last field
\* of the root, whose bytes end the stream.
Cex_C11_ArrayCount ==
    Returned_Ok /\ value.k \in {"struct", "map"} /\ Len(value.c) >= 1
                /\ LastValue(value).k = "seq" /\ IsNumArray(LastValue(value))
        => EndsWith(writer, ArrayImage(LastValue(value).c))


\* the key of a field or of a map entry
KeyBytes(f) == IF f.k = "field" THEN f.b ELSE f.c[1].b

\* a record or map of at least one pair, each a string key and a number
IsNumSection(v) ==
    /\ v.k \in {"struct", "map"}
    /\ Len(v.c) >= 1
    /\ \A i \in 1..Len(v.c) :
         /\ v.c[i].k = "entry" => v.c[i].c[1].k = "str"
         /\ v.c[i].c[Len(v.c[i].c)].k = "num"

\* the pairs c[i], c[i + 1], ... of such a section: key length, key, tag,
\* payload
RECURSIVE PairsImage(_, _)
PairsImage(c, i) ==
    IF i > Len(c) THEN <<>>
    ELSE LET x == c[i].c[Len(c[i].c)]
         IN <<Len(KeyBytes(c[i]))>> \o KeyBytes(c[i]) \o <<x.t>>
              \o LeBytes(x.n, num_size(x.t)) \o PairsImage(c, i + 1)

\* C12: in every section a successful encode wrote (serialize_map(Some(n)) or
\* serialize_struct(n), k pairs, end), the field count at the start of the
\* section is the number k of (key, entry) pairs written before the section
\* ends.  Stated for a root section of numbers.
Cex_C12_SectionCount ==
    Returned_Ok /\ IsNumSection(value)
        => writer = PORTABLE_STORAGE_SIGNATURE \o to_writer(U64(Len(value.c)))
                      \o PairsImage(value.c, 1)


\* a record or map of at least one pair whose first key is a string
HasFirstKey(v) ==
    /\ v.k \in {"struct", "map"}
    /\ Len(v.c) >= 1
    /\ v.c[1].k = "entry" => v.c[1].c[1].k = "str"

\* where the length byte of the root's first key is: after the signature and
\* the one-byte count
FirstKeyAt == PORTABLE_STORAGE_SIGNATURE_SIZE + 2

\* C13: no successful encode writes a section key with a length byte of 0: a
\* map key or field name that is the empty string is never written as a
\* zero-length key.  Stated for the first key of the root.
Cex_C13_NoEmptyKey ==
    Returned_Ok /\ HasFirstKey(value)
        => Len(writer) >= FirstKeyAt /\ writer[FirstKeyAt] # 0


\* the next call writes a section key: a field name, or a string in map-key
\* position
KeyWrite ==
    /\ pc = "run"
    /\ todo # <<>>
    /\ \/ todo[1].op = "serialize_field"
       \/ todo[1].op \in {"serialize_str", "serialize_bytes"} /\ Top.serializing_key

\* what the frame writes before its first field name: the signature or the
\* object tag, and the count
KeyPrologue ==
    IF todo[1].op # "serialize_field" \/ Top.started THEN <<>>
    ELSE (IF Top.storage_format = "RootSection" THEN PORTABLE_STORAGE_SIGNATURE
          ELSE <<SERIALIZE_TYPE_OBJECT>>) \o to_writer(U64(Top.len))

\* C14: writing a section key longer than 255 bytes fails with KeyTooLong and
\* writes neither the length byte nor a key byte; a key of 1..255 bytes is
\* written as one length byte followed by the key bytes.
Thm_C14_KeyTooLong ==
    [][KeyWrite =>
         IF Len(todo[1].b) > 255
         THEN err' = "KeyTooLong" /\ pc' = "failed" /\ writer' = writer \o KeyPrologue
         ELSE Len(todo[1].b) >= 1 =>
                /\ err' = Ok
                /\ writer' = writer \o KeyPrologue \o <<Len(todo[1].b)>> \o todo[1].b]_vars

Wit_C14_KeyTooLong ==
    /\ pc = "failed"
    /\ err = "KeyTooLong"
    /\ last.op = "serialize_field"
    /\ Len(last.b) = 256
    /\ writer = PORTABLE_STORAGE_SIGNATURE \o <<4>>


\* the next call begins a section that declares its count
BeginSection ==
    /\ pc = "run"
    /\ todo # <<>>
    /\ todo[1].op \in {"serialize_map", "serialize_struct"}
    /\ todo[1].n # NoneLen

\* C16: beginning a section with a declared count L > 10 000 fails with
\* TooManySectionFields and writes nothing, for every L a usize can hold; a
\* count L <= 10 000 is accepted.
Cex_C16_TooManySectionFields ==
    [][BeginSection =>
         IF todo[1].t > 0 \/ todo[1].n > 10000
         THEN err' = "TooManySectionFields" /\ writer' = writer
         ELSE err' = Ok]_vars


(***************************************************************************)
(* Properties of the decoder                                               *)
(***************************************************************************)
\* the last call was the first pull on a compound, which starts it
StartsCompound == dcall.c # <<>> /\ ~dcall.c[1].started

\* the stream at the compound's length varint, the signature being right
AtCount ==
    IF ~dcall.c[1].is_root THEN <<dcall.entry.rd>>
    ELSE IF BeginsWithSignature(dcall.entry.rd)
    THEN <<SubSeq(dcall.entry.rd, PORTABLE_STORAGE_SIGNATURE_SIZE + 1, Len(dcall.entry.rd))>>
    ELSE <<>>

\* C15: when a section, root or nested, announces a field count N > 10 000
\* in its length varint, the decoder fails with TooManySectionFields before it
\* reads a key of the section.
Cex_C15_DecodeTooManyFields ==
    dcall.slot = "key" /\ StartsCompound /\ AtCount # <<>>
        /\ from_reader(AtCount[1]).err = Ok
        /\ usize_of(from_reader(AtCount[1]).value) > 10000
        => /\ deser.err = "TooManySectionFields"
           /\ deser.rd = from_reader(AtCount[1]).rest


\* C17: a root stream whose 9 leading bytes differ from the signature fails
\* with ExpectedFormatSignature, and the decoder reads nothing after them.
Thm_C17_ExpectedFormatSignature ==
    dcall.slot = "key" /\ StartsCompound /\ dcall.c[1].is_root
        /\ Len(dcall.entry.rd) >= 9 /\ ~BeginsWithSignature(dcall.entry.rd)
        => /\ deser.err = "ExpectedFormatSignature"
           /\ dpc = "failed"
           /\ deser.rd = SubSeq(dcall.entry.rd, 10, Len(dcall.entry.rd))
           /\ visited = NoVal

Wit_C17_ExpectedFormatSignature ==
    /\ dpc = "failed"
    /\ dcall.slot = "key"
    /\ deser.err = "ExpectedFormatSignature"
    /\ src[9] # PORTABLE_STORAGE_SIGNATURE[9]
    /\ Len(deser.rd) = Len(src) - 9


\* the last call read a tag byte at an entry slot
ReadsTag ==
    /\ dcall.slot = "value"
    /\ dcall.m.name \in {"deserialize_any", "deserialize_seq", "deserialize_num",
                         "deserialize_str"}
    /\ dcall.pre.rd # <<>>
TagByte == dcall.pre.rd[1]

\* C18: a tag byte b read at an entry slot whose low 7 bits are 0 or above 12
\* fails with BadTypeCode; otherwise the scalar type is the one of code
\* b & 0x7F and the entry is an array exactly if b & 0x80 is set.
Thm_C18_BadTypeCode ==
    ReadsTag =>
        IF TagByte % 128 = 0 \/ TagByte % 128 > 12
        THEN deser.err = "BadTypeCode" /\ visited = NoVal /\ dpc = "failed"
        ELSE /\ deser.err # "BadTypeCode"
             /\ dcall.m.name \in {"deserialize_any", "deserialize_seq"} /\ TagByte >= 128
                  => /\ deser.err = Ok
                     /\ compounds[Len(compounds)] = EpeeCompound(FALSE, TagByte - 128)
             /\ dcall.m.name = "deserialize_seq" /\ TagByte < 128
                  => deser.err = "ExpectedArray"
             /\ dcall.m.name = "deserialize_any" /\ TagByte = SERIALIZE_TYPE_OBJECT
                  => /\ deser.err = Ok
                     /\ compounds[Len(compounds)] = EpeeCompound(FALSE, 0)
             /\ dcall.m.name = "deserialize_any" /\ TagByte < SERIALIZE_TYPE_OBJECT
                  => (deser.err = Ok => visited.t = TagByte)

Wit_C18_BadTypeCode ==
    /\ dcall.slot = "value"
    /\ dcall.m.name = "deserialize_any"
    /\ dcall.pre.rd # <<>>
    /\ dcall.pre.rd[1] = 141
    /\ deser.err = "BadTypeCode"


\* the scalar code associated with the type a method declares
DeclaredCode(m) ==
    IF m.name = "deserialize_num" THEN m.t
    ELSE IF m.name = "deserialize_bool" THEN SERIALIZE_TYPE_BOOL
    ELSE SERIALIZE_TYPE_STRING

\* the last call declared a scalar type other than the one on the wire: the
\* tag of the entry at a value slot, the element type of the enclosing array
\* at an element slot
DeclaredMismatch ==
    /\ dcall.m.name \in {"deserialize_num", "deserialize_bool", "deserialize_str"}
    /\ dcall.invoked
    /\ \/ /\ dcall.slot = "value"
          /\ dcall.pre.rd # <<>>
          /\ dcall.pre.rd[1] \in 1..12
          /\ dcall.pre.rd[1] # DeclaredCode(dcall.m)
       \/ /\ dcall.slot = "element"
          /\ dcall.pre.state.ty # DeclaredCode(dcall.m)

\* C19: a declared scalar type that differs from the wire scalar code, at a
\* section value slot or at an array element, fails with TypeMismatch and no
\* payload reaches the visitor.
Cex_C19_TypeMismatch ==
    DeclaredMismatch => deser.err = "TypeMismatch" /\ visited = NoVal


\* the last call read a whole key of length 1..255 at a key slot
ReadsKey ==
    /\ dcall.slot = "key"
    /\ dcall.invoked
    /\ dcall.m.name \in {"deserialize_str", "deserialize_any"}
    /\ dcall.pre.rd # <<>>
    /\ dcall.pre.rd[1] >= 1
    /\ Len(dcall.pre.rd) > dcall.pre.rd[1]
KeyRead == SubSeq(dcall.pre.rd, 2, dcall.pre.rd[1] + 1)

\* C20: a section key of length 1..255 never fails on its encoding: valid
\* UTF-8 reaches the visitor as text, anything else as a byte view.
Cex_C20_KeyBytesFallback ==
    ReadsKey =>
        /\ deser.err = Ok
        /\ visited = IF is_utf8(KeyRead, 1) THEN Str(KeyRead) ELSE Bytes(KeyRead)


\* the source ended inside the 9 signature bytes, or right after them where
\* the count is read
SignatureCut ==
    /\ dcall.slot = "key"
    /\ dcall.c # <<>>
    /\ dcall.c[1].is_root
    /\ ~dcall.c[1].started
    /\ Len(dcall.entry.rd) <= PORTABLE_STORAGE_SIGNATURE_SIZE
    /\ dcall.entry.rd = SubSeq(PORTABLE_STORAGE_SIGNATURE, 1, Len(dcall.entry.rd))

\* the source ended at the length byte of a key or inside the key's bytes
KeyCut ==
    /\ dcall.slot = "key"
    /\ dcall.invoked
    /\ dcall.m.name \in {"deserialize_str", "deserialize_any"}
    /\ \/ dcall.pre.rd = <<>>
       \/ dcall.pre.rd[1] >= 1 /\ Len(dcall.pre.rd) - 1 < dcall.pre.rd[1]

\* the source ended at the tag byte of an entry
TagCut ==
    /\ dcall.slot = "value"
    /\ dcall.m.name # "deserialize_map"
    /\ dcall.pre.rd = <<>>

\* the source ended inside the fixed-width payload of a number read as what
\* its tag says
NumCut ==
    /\ dcall.slot = "value"
    /\ dcall.pre.rd # <<>>
    /\ dcall.pre.rd[1] \in SERIALIZE_TYPE_INT64..SERIALIZE_TYPE_UINT8
    /\ \/ dcall.m.name = "deserialize_any"
       \/ dcall.m.name = "deserialize_num" /\ dcall.m.t = dcall.pre.rd[1]
    /\ Len(dcall.pre.rd) - 1 < num_size(dcall.pre.rd[1])

\* the source ended inside the body of a string whose length is a one-byte
\* varint
StrCut ==
    /\ dcall.slot = "value"
    /\ dcall.m.name \in {"deserialize_any", "deserialize_str"}
    /\ Len(dcall.pre.rd) >= 2
    /\ dcall.pre.rd[1] = SERIALIZE_TYPE_STRING
    /\ dcall.pre.rd[2] % 4 = 0
    /\ Len(dcall.pre.rd) - 2 < dcall.pre.rd[2] \div 4

\* C22: when the source ends early in a decode call (in the signature, a
\* key, a numeric payload, a string body, at a tag or a varint byte) the call
\* returns an error of kind IOError, and ends in no other way.
Cex_C22_SourceEndsEarly ==
    SignatureCut \/ KeyCut \/ TagCut \/ NumCut \/ StrCut
        => deser.err = "IOError" /\ visited = NoVal

(***************************************************************************)
(* serialized_size                                                         *)
(***************************************************************************)
\* serialized_size(value): serialize_into a ByteCounter, then bytes_written.
\* The calls value.serialize makes are those of to_bytes, so the counter is
\* written by the same actions as the Vec.
serialized_size == bytes_written(counter)

EntryOf(k) == CHOOSE e \in section : e[1] = k

\* the Section's pairs in the order its keys were inserted
InsertionOrder ==
    [i \in 1..Len(inserted) |-> Entry(Str(inserted[i]), EntryOf(inserted[i])[2])]

\* C21: to_bytes of a Section emits its (key, entry) pairs in the order the
\* keys were inserted, whatever insert_* / remove calls built it.  Stated on
\* the bytes of a Section that holds numbers only.
Cex_C21_InsertionOrder ==
    pc = "done" /\ IsNumSection(value)
        => writer = PORTABLE_STORAGE_SIGNATURE \o to_writer(U64(Len(inserted)))
                      \o PairsImage(InsertionOrder, 1)


(***************************************************************************)
(* The length limit of strings and blobs (SpecLimit)                       *)
(***************************************************************************)
\* the step is serialize_str / serialize_bytes at a value position
WritesString ==
    /\ pc = "run"
    /\ todo # <<>>
    /\ todo[1].op \in {"serialize_str", "serialize_bytes"}
    /\ ~Top.serializing_key

\* the encoder turns down a string over the limit with nothing written, and
\* writes one at the limit as its varint length and its bytes
EncodeLimit ==
    WritesString =>
        IF ByteLen(todo[1].b) > MAX_STRING_LEN_POSSIBLE
        THEN err' = "StringTooLong" /\ writer' = writer
        ELSE /\ err' = Ok
             /\ Len(writer') > Len(writer) + 8
             /\ SubSeq(writer', Len(writer') - 8, Len(writer'))
                  = to_writer(U64(ByteLen(todo[1].b))) \o todo[1].b

\* the bytes after the string in every stream of LimitStreams
AfterString == <<1, 98, 8, 7>>

\* the reader of d stands at a string of n bytes "x"
AtString(d, n) ==
    \/ /\ d.state.st = "ExpectingEntry"
       /\ d.rd = <<SERIALIZE_TYPE_STRING>> \o to_writer(U64(n)) \o <<0 - n>> \o AfterString
    \/ /\ d.state.st = "ExpectingScalar"
       /\ d.state.ty = SERIALIZE_TYPE_STRING
       /\ d.rd = to_writer(U64(n)) \o <<0 - n>> \o AfterString

\* the decoder turns down a string over the limit with its body unread, and
\* reads one at the limit whole
DecodeLimit ==
    \A n \in LimitLens :
        /\ dpc # "idle"
        /\ dcall.invoked
        /\ dcall.m.name \in {"deserialize_str", "deserialize_any"}
        /\ AtString(dcall.pre, n)
        => IF n > MAX_STRING_LEN_POSSIBLE
           THEN /\ deser.err = "StringTooLong"
                /\ deser.rd = <<0 - n>> \o AfterString
                /\ visited = NoVal
           ELSE /\ deser.err = Ok
                /\ deser.rd = AfterString
                /\ visited = Str(<<0 - n>>)

\* C24: a value string or blob of MAX_STRING_LEN_POSSIBLE + 1 bytes is turned
\* down with StringTooLong, by the encoder before any byte (the frame
\* prologue included) is written and by the decoder before the body is read;
\* one of MAX_STRING_LEN_POSSIBLE bytes is written and read
Thm_C24_StringLimit == [][EncodeLimit]_vars /\ []DecodeLimit

\* C24 witness: the decoder has turned down the string of
\* MAX_STRING_LEN_POSSIBLE + 1 bytes at the entry "a"
Wit_C24_StringLimit ==
    /\ dpc # "idle"
    /\ dcall.invoked
    /\ dcall.m.name = "deserialize_str"
    /\ AtString(dcall.pre, MAX_STRING_LEN_POSSIBLE + 1)
    /\ deser.err = "StringTooLong"


(***************************************************************************)
(* Compounds that begin without a length, and sequences in sequences       *)
(***************************************************************************)
\* the next call begins a map or a sequence of unknown length
BeginsUnsized ==
    /\ pc = "run"
    /\ todo # <<>>
    /\ todo[1].op \in {"serialize_map", "serialize_seq"}
    /\ todo[1].n = NoneLen

\* C25: beginning a map or a sequence whose length is not known in advance
\* fails with NoLength and writes nothing to the sink
Cex_C25_NoLength ==
    [][BeginsUnsized => err' = "NoLength" /\ writer' = writer]_vars

\* C25, amended: beginning a map or a sequence of unknown length writes
\* nothing and fails: with NestedArrays for a sequence begun in an Array
\* frame, with NoLength otherwise
Thm_C25_NoLength ==
    [][BeginsUnsized =>
         /\ writer' = writer
         /\ err' = IF todo[1].op = "serialize_seq" /\ Top.storage_format = "Array"
                   THEN "NestedArrays"
                   ELSE "NoLength"]_vars

\* C25 witness: a sequence of unknown length was begun as the value of a
\* record's field, after the key was written
Wit_C25_NoLength ==
    /\ pc = "failed"
    /\ err = "NoLength"
    /\ last.op = "serialize_seq"
    /\ last.n = NoneLen
    /\ Len(writer) > PORTABLE_STORAGE_SIGNATURE_SIZE


\* the next call begins a sequence as an element of a sequence
BeginsNested ==
    /\ pc = "run"
    /\ todo # <<>>
    /\ todo[1].op = "serialize_seq"
    /\ Top.storage_format = "Array"

\* v holds a sequence that has a sequence among its elements
RECURSIVE SeqInSeq(_)
SeqInSeq(v) ==
    \/ v.k = "seq" /\ \E i \in 1..Len(v.c) : v.c[i].k = "seq"
    \/ \E i \in 1..Len(v.c) : SeqInSeq(v.c[i])

\* C26: beginning a sequence while the current frame is an Array fails with
\* NestedArrays and writes nothing; no value holding a sequence of sequences
\* is encoded, and no output decodes to one
Thm_C26_NestedArrays ==
    /\ [][BeginsNested => err' = "NestedArrays" /\ writer' = writer]_vars
    /\ [](pc \in {"done", "decoded"} => ~SeqInSeq(value))
    /\ [](pc = "decoded" /\ decoded.d.err = Ok => ~SeqInSeq(decoded.v))

\* C26 witness: the encoder has turned down vec![vec![7u8]] held by a field,
\* with the key written and no array prologue after it
Wit_C26_NestedArrays ==
    /\ pc = "failed"
    /\ err = "NestedArrays"
    /\ last.op = "serialize_seq"
    /\ last.n = 1
    /\ SeqInSeq(value)
    /\ writer = PORTABLE_STORAGE_SIGNATURE \o <<4, 1, 97>>


(***************************************************************************)
(* Map keys                                                                *)
(***************************************************************************)
\* serialize_key has set serializing_key and the key is serialized next
KeyPosition ==
    /\ pc = "run"
    /\ todo # <<>>
    /\ last.op = "serialize_key"

\* C27: in map-key position a key that is not a string or blob fails with
\* KeyBadType; a string or blob key (of at most MAX_SECTION_KEY_SIZE bytes) is
\* written as its 1-byte length and its bytes, and serializing_key is false
\* afterwards
Cex_C27_KeyBadType ==
    [][KeyPosition =>
         /\ Top.serializing_key
         /\ IF todo[1].op \in {"serialize_str", "serialize_bytes"}
            THEN Len(todo[1].b) <= MAX_SECTION_KEY_SIZE
                    => /\ err' = Ok
                       /\ writer' = writer \o <<Len(todo[1].b)>> \o todo[1].b
                       /\ ~frames'[Len(frames')].serializing_key
            ELSE err' = "KeyBadType"]_vars


(***************************************************************************)
(* Arrays of sections                                                      *)
(***************************************************************************)
\* { a: vec![{ x: 7u8 }; n] }
ArrayOfSections(n) == Struct(<<Field(<<97>>, Vec(n, [i \in 1..n |-> InnerMap]))>>)

\* n section bodies of { x: 7u8 }: the count, the key, the entry
RECURSIVE SectionBodies(_)
SectionBodies(n) ==
    IF n = 0 THEN <<>>
    ELSE <<4, 1, 120, SERIALIZE_TYPE_UINT8, 7>> \o SectionBodies(n - 1)

\* C28: an array of sections is written as the tag 0x8C, the varint element
\* count and each element as a length-prefixed section body without a tag of
\* its own, and the decoder reads the output back as the sequence of sections
Cex_C28_ArrayOfSections ==
    \A n \in 1..MaxElems :
        pc \in {"done", "decoded"} /\ value = ArrayOfSections(n)
        => /\ writer = PORTABLE_STORAGE_SIGNATURE
                         \o <<4, 1, 97, SERIALIZE_TYPE_OBJECT + SERIALIZE_FLAG_ARRAY>>
                         \o to_writer(U64(n)) \o SectionBodies(n)
           /\ pc = "decoded"
                => /\ decoded.d.err = Ok
                   /\ decoded.v.c[1].c[2].k = "seq"
                   /\ Len(decoded.v.c[1].c[2].c) = n


(***************************************************************************)
(* Entries read at a value slot: sections and bools                        *)
(***************************************************************************)
\* the seed of a value was called with method m on an entry whose tag is t
ReadsEntry(m, t) ==
    /\ dcall.slot = "value"
    /\ dcall.invoked
    /\ dcall.m.name = m
    /\ dcall.pre.rd # <<>>
    /\ dcall.pre.rd[1] = t

\* the decoder has consumed the tag and stands in a nested section that is
\* not started yet
InNestedSection ==
    /\ deser.err = Ok
    /\ deser.rd = Tail(dcall.pre.rd)
    /\ compounds # <<>>
    /\ compounds[Len(compounds)] = EpeeCompound(FALSE, 0)
    /\ dpc = "key"

\* C29: an entry tagged object at a value slot is decoded by recursing into a
\* nested section, under deserialize_any and under a declared record type
\* (deserialize_struct / deserialize_map)
Cex_C29_NestedSection ==
    \A m \in {"deserialize_any", "deserialize_map"} :
        ReadsEntry(m, SERIALIZE_TYPE_OBJECT) => InNestedSection


\* C30: decoding a bool entry at a value slot consumes the tag byte 0x0B and
\* one payload byte and yields true iff the payload byte is nonzero, under
\* deserialize_any and under a declared bool (deserialize_bool)
Cex_C30_BoolEntry ==
    \A m \in {"deserialize_any", "deserialize_bool"} :
        ReadsEntry(m, SERIALIZE_TYPE_BOOL) /\ Len(dcall.pre.rd) >= 2
        => /\ deser.err = Ok
           /\ deser.rd = SubSeq(dcall.pre.rd, 3, Len(dcall.pre.rd))
           /\ visited = Bool(IF dcall.pre.rd[2] # 0 THEN 1 ELSE 0)


(***************************************************************************)
(* Termination of the decoder                                              *)
(***************************************************************************)
\* the caller is back in the root section, whose last value has been visited
RootVisited ==
    /\ Len(compounds) = 1
    /\ compounds[1].is_root
    /\ compounds[1].started
    /\ compounds[1].remaining = 0
    /\ \/ dpc = "key"
       \/ dpc = "failed" /\ dcall.slot = "value"

\* deserialize_any was called in state Done
AnyWhenDone ==
    /\ dcall.invoked
    /\ dcall.m.name = "deserialize_any"
    /\ dcall.pre.state = Done

\* C31: when the root section's remaining count is 0 at the end of visiting
\* a value the state becomes Done; a deserialize_any call made in state Done
\* returns ExpectedEnd and reads nothing; no step leaves Done
Thm_C31_Done ==
    /\ [](RootVisited => deser.state = Done)
    /\ [](AnyWhenDone =>
            deser.err = "ExpectedEnd" /\ deser.rd = dcall.pre.rd /\ visited = NoVal)
    /\ [][deser.state = Done => deser'.state = Done]_vars

\* C31 witness: after { a: 7u8, b: false } was decoded with two bytes left
\* unread by a declared bool, deserialize_any was called again and turned down
Wit_C31_Done ==
    /\ AnyWhenDone
    /\ dcall.slot = "again"
    /\ deser.err = "ExpectedEnd"
    /\ deser.rd # <<>>

\* next_key_seed of the root section returns None and the root visitor, and
\* with it T::deserialize, returns Ok
RootReturns ==
    /\ dpc = "key"
    /\ Len(compounds) = 1
    /\ compounds[1].is_root
    /\ dpc' = "returned"

\* C36: after every successful decode of a well-formed root stream, a root
\* section of zero fields included, the final state of the decoder is Done
Cex_C36_FinalDone == [][RootReturns => deser'.state = Done]_vars

\* a declared number or string was asked for at a value slot whose tag byte
\* has the array flag
ScalarAtArrayTag ==
    /\ dcall.slot = "value"
    /\ dcall.m.name \in {"deserialize_num", "deserialize_str"}
    /\ dcall.pre.rd # <<>>
    /\ dcall.pre.rd[1] >= SERIALIZE_FLAG_ARRAY

\* C37: a declared-scalar decode at a section value slot rejects a tag byte
\* whose array flag is set
Cex_C37_ArrayAsScalar == ScalarAtArrayTag => deser.err # Ok

\* a seed called a numeric deserialize method
NumCalled == dcall.invoked /\ dcall.m.name = "deserialize_num"

\* C38: a numeric deserialize call made in state ExpectingSection(_),
\* ExpectingKey or Done returns NotExpectingScalar, consumes no byte and
\* leaves the state unchanged; after a successful numeric read from
\* ExpectingEntry or ExpectingScalar the state is ExpectingEntry
Thm_C38_NumStates ==
    NumCalled =>
        LET r == deserialize_num(dcall.pre, dcall.m.t)
        IN /\ deser.err = r.d.err
           /\ deser.rd = r.d.rd
           /\ IF dcall.pre.state.st \in {"ExpectingSection", "ExpectingKey", "Done"}
              THEN /\ r.d.err = "NotExpectingScalar"
                   /\ r.d.rd = dcall.pre.rd
                   /\ r.d.state = dcall.pre.state
              ELSE r.d.err = Ok => r.d.state = ExpectingEntry

\* C38 witness: deserialize_u16 called in an array of u8 read its element,
\* and the state it found, ExpectingScalar, is not the one it left
Wit_C38_NumStates ==
    /\ NumCalled
    /\ dcall.slot = "element"
    /\ dcall.pre.state.st = "ExpectingScalar"
    /\ deser.err = Ok
    /\ deserialize_num(dcall.pre, dcall.m.t).d.state = ExpectingEntry

\* next_element_seed was called on an array not yet started whose length
\* varint announces more than MAX_STRING_LEN_POSSIBLE elements
ArrayTooLong ==
    /\ dcall.slot = "element"
    /\ ~dcall.c[1].started
    /\ Started(dcall.entry, dcall.c[1]).d.err = Ok
    /\ Started(dcall.entry, dcall.c[1]).c.remaining > MAX_STRING_LEN_POSSIBLE

\* C35: an array announcing more than MAX_STRING_LEN_POSSIBLE elements is
\* rejected before any element payload is read
Cex_C35_ArrayCount == ArrayTooLong => ~dcall.invoked /\ deser.err # Ok

(***************************************************************************)
(* The entry after a section key                                           *)
(***************************************************************************)
\* where the first key of the root record v ends in the output: signature,
\* one byte of field count, one byte of key length, the key
KeyEnd(v) == PORTABLE_STORAGE_SIGNATURE_SIZE + 2 + Len(v.c[1].b)

\* a scalar type code, with or without the array flag
IsTagByte(b) == (b % SERIALIZE_FLAG_ARRAY) \in SERIALIZE_TYPE_INT64..SERIALIZE_TYPE_OBJECT

\* C33: in the output of a successful encode each section key is immediately
\* followed by one type tag byte (a scalar code, optionally with the array
\* flag) and the payload, for every kind of field value: fixed tuples, empty
\* sequences and empty nested records included
Cex_C33_TagAfterKey ==
    Returned_Ok /\ value.k = "struct" /\ value.c # <<>>
        => /\ Len(writer) > KeyEnd(value)
           /\ IsTagByte(writer[KeyEnd(value) + 1])

(***************************************************************************)
(* Length prefixes of keys and of value strings                            *)
(***************************************************************************)
\* the next call serializes a string or blob
StringNext ==
    /\ pc = "run"
    /\ todo # <<>>
    /\ todo[1].op \in {"serialize_str", "serialize_bytes"}

\* the output grows by exactly suffix, or by a prologue and a tag ending in it
GrowsBy(suffix) ==
    /\ Len(writer') >= Len(writer) + Len(suffix)
    /\ SubSeq(writer', 1, Len(writer)) = writer
    /\ SubSeq(writer', Len(writer') - Len(suffix) + 1, Len(writer')) = suffix

\* C34: the encoder writes a section key as one length byte and the bytes, and
\* a value string or blob (array elements included) as tag or array context,
\* varint length and bytes; a value string is never written with the 1-byte
\* key prefix
Cex_C34_Prefixes ==
    [][StringNext /\ err' = Ok =>
         IF last.op = "serialize_key"
         THEN writer' = writer \o <<Len(todo[1].b)>> \o todo[1].b
         ELSE GrowsBy(to_writer(U64(Len(todo[1].b))) \o todo[1].b)]_vars

(***************************************************************************)
(* SpecCounter: a ByteCounter (byte_counter.rs) over an inner writer that  *)
(* may take a part of a buffer or fail.  writer holds the bytes the inner  *)
(* writer reported as taken, last the call made last and the size the      *)
(* inner writer returned, err its Result.                                  *)
(***************************************************************************)
MaxBuf == 3
MaxWritten == 5

\* the buffers handed to write
Bufs == {[i \in 1..n |-> b] : n \in 0..MaxBuf, b \in {0, 255}}

\* io::Result<usize> of the inner writer: Ok(size) with size <= buf.len(), or Err
IoOk(size) == [ok |-> TRUE, size |-> size]
IoErr == [ok |-> FALSE, size |-> 0]
InnerResults(buf) == {IoOk(n) : n \in 0..Len(buf)} \cup {IoErr}

\* a write that counts buf.len() whatever the inner writer returned
write_result_counts_buf(bc, buf, res) == [bc EXCEPT !.count = @ + ByteLen(buf)]

\* <ByteCounter as Write>::write, the inner writer returning res
write_result(bc, buf, res) ==
    IF res.ok THEN [bc EXCEPT !.count = @ + res.size] ELSE bc

\* <ByteCounter as Write>::flush: inner.flush()
flush(bc) == bc

InitCounter ==
    /\ counter = ByteCounter
    /\ sink = Unfailing
    /\ writer = <<>>
    /\ pc = "counting"
    /\ err = Ok
    /\ last = NoCall
    /\ value = <<>>
    /\ todo = <<>>
    /\ frames = <<>>
    /\ decoded = <<>>
    /\ VarIntIdle
    /\ DecoderIdle
    /\ SectionIdle

Call_write ==
    /\ pc = "counting"
    /\ \E buf \in Bufs : \E res \in InnerResults(buf) :
         /\ Len(writer) + res.size <= MaxWritten
         /\ counter' = write_result(counter, buf, res)
         /\ writer' = writer \o SubSeq(buf, 1, res.size)
         /\ err' = IF res.ok THEN Ok ELSE "IOError"
         /\ last' = Call("write", 0, res.size, buf)
    /\ UNCHANGED <<value, todo, frames, pc, decoded, sink>>
    /\ UNCHANGED <<vivars, devars, secvars>>

Call_flush ==
    /\ pc = "counting"
    /\ counter' = flush(counter)
    /\ err' \in {Ok, "IOError"}
    /\ last' = Call("flush", 0, 0, <<>>)
    /\ UNCHANGED <<value, todo, frames, writer, pc, decoded, sink>>
    /\ UNCHANGED <<vivars, devars, secvars>>

NextCounter ==
    \/ Call_write
    \/ Call_flush

SpecCounter == InitCounter /\ [][NextCounter]_vars

\* C39: after any sequence of write calls bytes_written() is the sum of the
\* sizes the inner writer's successful writes returned; a write that returns
\* an error leaves the count unchanged, flush never changes it, and the count
\* never decreases
Thm_C39_ByteCounter ==
    /\ [](bytes_written(counter) = Len(writer))
    /\ [][/\ last'.op = "write" /\ err' # Ok => bytes_written(counter') = bytes_written(counter)
          /\ last'.op = "write" /\ err' = Ok
                => bytes_written(counter') = bytes_written(counter) + last'.n
          /\ last'.op = "flush" => bytes_written(counter') = bytes_written(counter)
          /\ bytes_written(counter') >= bytes_written(counter)]_vars

\* C39 witness: after writes of which the inner writer took 2 bytes in all,
\* a write of 3 bytes failed and the count is 2
Wit_C39_ByteCounter ==
    /\ pc = "counting"
    /\ last.op = "write"
    /\ Len(last.b) = 3
    /\ err = "IOError"
    /\ bytes_written(counter) = 2

(***************************************************************************)
(* SpecSink: serialize_into(value, writer) on a sink that fails one of its *)
(* write_all calls                                                         *)
(***************************************************************************)
MaxWrites == 12

InitSink ==
    /\ value \in Inputs
    /\ todo = Calls(value)
    /\ frames = <<new_unstarted>>
    /\ writer = <<>>
    /\ pc = "run"
    /\ err = Ok
    /\ last = NoCall
    /\ decoded = Fail(EpeeDeserializer(<<>>), Ok)
    /\ counter = ByteCounter
    /\ sink \in {Sink(k, NoLimit) : k \in 0..MaxWrites}
    /\ VarIntIdle
    /\ DecoderIdle
    /\ SectionIdle

NextSink ==
    \/ Call_serialize_num
    \/ Call_serialize_bool
    \/ Call_serialize_str
    \/ Call_serialize_bytes
    \/ Call_serialize_none
    \/ Call_serialize_seq
    \/ Call_serialize_tuple
    \/ Call_serialize_map
    \/ Call_serialize_struct
    \/ Call_serialize_key
    \/ Call_serialize_field
    \/ Call_end
    \/ to_bytes_return

SpecSink == InitSink /\ [][NextSink]_vars

\* a write_all of the sink has failed
SinkFailed == sink.at # NoLimit

\* C32: after a write to the byte sink fails during an encode, the encoder
\* performs no further write to the sink and the top-level encode call returns
\* an error of kind IOError, wherever the failure occurs (signature, tag,
\* length varint, key length, key bytes, payload)
Thm_C32_SinkFails ==
    /\ [](SinkFailed => pc = "failed" /\ err = "IOError" /\ Len(writer) = sink.at)
    /\ [][SinkFailed => writer' = writer]_vars

\* C32 witness: encoding { a: 7u8 }, the sink took the signature, the count,
\* the key length, the key and the tag, and failed the write of the payload
Wit_C32_SinkFails ==
    /\ SinkFailed
    /\ err = "IOError"
    /\ last.op = "serialize_num"
    /\ writer = PORTABLE_STORAGE_SIGNATURE \o <<4, 1, 97, SERIALIZE_TYPE_UINT8>>

====
